---------------------------- MODULE Spec2Model ----------------------------
(***************************************************************************)
(* A model of the RCT2 park importer (S6Importer.cpp): the raw _s6 buffer  *)
(* filled by LoadFromStream and the destination world state written by     *)
(* Import.  Import is a sequence of stages; pc is the stage the importer   *)
(* has reached.  Each stage of Import that a property is about is one      *)
(* action, and each has a specification of its own whose initial states    *)
(* draw the raw records that stage reads from bounded sets.                *)
(***************************************************************************)
EXTENDS Integers, Sequences, FiniteSets, TLC

VARIABLES
    pc,                       \* the stage LoadFromStream / Import has reached
    ndebug,                   \* TRUE: built with NDEBUG, assert() compiles to nothing
    s6_tile_elements,         \* _s6.tile_elements
    gTileElements,            \* destination tile element array
    tileLog,                  \* per loop iteration: source index, destination index, branch taken
    s6_scenario_filename,     \* _s6.scenario_filename
    s6_peep_spawns,           \* _s6.peep_spawns
    file_peep_spawns,         \* the peep spawn records as they were read from the file
    gPeepSpawns,              \* destination peep spawn list
    s6_sprites,               \* _s6.sprites
    s6_sprite_lists_head,     \* _s6.sprite_lists_head
    s6_sprite_lists_count,    \* _s6.sprite_lists_count
    gSprites,                 \* destination sprite array (get_sprite(i))
    gSpriteListHead,
    gSpriteListCount,
    s6_rides,                 \* _s6.rides
    gRides,                   \* destination ride array (get_ride(i))
    s6_researched_ride_types,     \* the three raw research bit arrays
    s6_researched_ride_entries,
    s6_researched_scenery_items,
    inventedRideTypes,        \* the items marked invented, per bitmap
    inventedRideEntries,
    inventedSceneryItems,
    isScenario,               \* LoadFromStream's argument
    allow_loading_with_incorrect_checksum,   \* gConfigGeneral
    stream,                   \* what the stream holds
    s6_header,                \* _s6.header
    chunkLog,                 \* the chunks ReadChunk has read, in order
    packedExported,           \* calls of ExportPackedObject so far
    error,                    \* the exception the call has thrown
    entry,                    \* the function that was called: load_from_sv6, load_from_sc6 or LoadFromStream
    path,                     \* the path given to it
    s6Path,                   \* _s6Path
    objectsLoadable,          \* whether the object manager can load the required objects
    objectsLoaded,            \* LoadObjects has returned
    s6_map_size,              \* _s6.map_size
    initAllCalls,             \* the map sizes GameState::InitAll was called with, in order
    s6_elapsed_months,        \* _s6.elapsed_months
    gDateMonthsElapsed,
    gScenarioFileName,
    gLandOwnership,           \* the tiles FixLandOwnershipTilesWithOwnership was given, with the ownership
    s6_info,                  \* _s6.info: the raw scenario name and details
    file_info,                \* the scenario info chunk as the file holds it
    gS6Info,                  \* the destination scenario info
    peepFields,               \* the fields of the sprites that StaffSetOrderAction looks at, as GET_PEEP(i) gives them
    lastAction,               \* the last call of the game action: Query or Execute, with its _spriteIndex and _orderId
    spritesRead,              \* the sprite indices that call handed to GET_PEEP
    gaResult,                 \* the GameActionResult that call returned
    invalidatedWindows,       \* the numbers window_invalidate_by_number(WC_PEEP, ...) was called with
    staffListRefreshed,       \* INTENT_ACTION_REFRESH_STAFF_LIST was broadcast
    outOfBounds,              \* memory outside the sprite array was written
    engineA,                  \* an engine that is seeded and called: its words _S0 and _S1
    engineB,                  \* an engine that is seeded, called and discarded from
    seedA,                    \* the words engineA was last seeded with
    seedB,                    \* the words engineB was last seeded with
    callsA,                   \* the words engineA has produced since it was seeded
    callsB,                   \* the words engineB has produced or discarded since it was seeded
    outputsA,                 \* the values the calls of engineA returned since it was seeded, in order
    outputsB,                 \* per word of engineB since it was seeded the value its call returned, Discarded for a discarded word
    discardLeft,              \* N of the discard loop that engineB runs, 0 outside discard
    discardTarget,            \* the words engineB is to have produced when its last discard returns
    file_data,                \* the other fields of _s6 as the chunks of the file hold them
    gErrorType,
    gErrorStringId

buildVars == <<ndebug>>

tileVars == <<s6_tile_elements, gTileElements, tileLog>>

spawnVars == <<s6_scenario_filename, s6_peep_spawns, file_peep_spawns, gPeepSpawns>>

spriteVars ==
    <<s6_sprites, s6_sprite_lists_head, s6_sprite_lists_count, gSprites, gSpriteListHead,
      gSpriteListCount>>

rideVars == <<s6_rides, gRides>>

researchVars ==
    <<s6_researched_ride_types, s6_researched_ride_entries, s6_researched_scenery_items,
      inventedRideTypes, inventedRideEntries, inventedSceneryItems>>

loadVars ==
    <<isScenario, allow_loading_with_incorrect_checksum, stream, s6_header, chunkLog,
      packedExported, error>>

hostVars ==
    <<entry, path, s6Path, objectsLoadable, objectsLoaded, s6_map_size, initAllCalls,
      s6_elapsed_months, gDateMonthsElapsed, gScenarioFileName, gLandOwnership, gErrorType,
      gErrorStringId>>

infoVars == <<s6_info, file_info, gS6Info>>

staffVars ==
    <<peepFields, lastAction, spritesRead, gaResult, invalidatedWindows,
      staffListRefreshed, outOfBounds>>

randomVars ==
    <<engineA, engineB, seedA, seedB, callsA, callsB, outputsA, outputsB, discardLeft,
      discardTarget>>

fileVars == <<file_data>>

vars ==
    <<pc, buildVars, tileVars, spawnVars, spriteVars, rideVars, researchVars, loadVars,
      hostVars, infoVars,
      staffVars,
      randomVars,
      fileVars>>

(***************************************************************************)
(* Bounds of the model.                                                    *)
(***************************************************************************)
\* The length of both tile element arrays, scaled down.
RCT2_MAX_TILE_ELEMENTS == 2

\* The number of sprites of the raw format and of the destination, scaled
\* down; the destination holds more.
RCT2_MAX_SPRITES == 2

MAX_SPRITES == 3

\* The number of ride slots of the raw format, scaled down.
RCT12_MAX_RIDES_IN_PARK == 2

\* The stations of a raw ride and of a destination ride, scaled down.
RCT12_MAX_STATIONS_PER_RIDE == 2

MAX_STATIONS == 3

\* The number of ride types, ride entries and scenery items a research bit
\* array is decoded for, scaled down; each spans more than one 32-bit word.
RIDE_TYPE_COUNT == 34

MAX_RIDE_OBJECTS == 33

RCT2_MAX_RESEARCHED_SCENERY_ITEMS == 35

\* The most chunks a stream holds intact, and the most packed objects a
\* header announces.
MaxStreamChunks == 13

MaxPackedObjects == 1

(***************************************************************************)
(* Bit operations on a byte.                                               *)
(***************************************************************************)
\* b & 0x03
LowTwoBits(b) == b % 4

\* b & 0x3C
TypeBits(b) == ((b \div 4) % 16) * 4

(***************************************************************************)
(* Tile element type tags (RCT12TileElementType, TILE_ELEMENT_TYPE_x).     *)
(***************************************************************************)
TILE_ELEMENT_TYPE_SURFACE == 0
TILE_ELEMENT_TYPE_PATH == 4
TILE_ELEMENT_TYPE_TRACK == 8
TILE_ELEMENT_TYPE_SMALL_SCENERY == 12
TILE_ELEMENT_TYPE_ENTRANCE == 16
TILE_ELEMENT_TYPE_WALL == 20
TILE_ELEMENT_TYPE_LARGE_SCENERY == 24
TILE_ELEMENT_TYPE_BANNER == 28
TILE_ELEMENT_TYPE_CORRUPT == 32
TILE_ELEMENT_TYPE_EIGHT_CARS_CORRUPT_14 == 56
TILE_ELEMENT_TYPE_EIGHT_CARS_CORRUPT_15 == 60

\* The base height that marks an unused slot of the tile element array.
PaddingBaseHeight == 255

\* RCT12TileElementBase::GetType
GetType(src) == TypeBits(src.type)

\* RCT12TileElementBase::GetDirection
GetDirection(src) == LowTwoBits(src.type)

\* The four bytes that follow the common header of a tile element.
ZeroPad == <<0, 0, 0, 0>>

NoFields == <<>>

\* std::memcpy(dst, src, sizeof(*src)): every byte of the raw record.
CopyTileElement(src) ==
    [type |-> src.type, flags |-> src.flags, base_height |-> src.base_height,
     clearance_height |-> src.clearance_height, pad |-> src.pad, fields |-> NoFields]

(***************************************************************************)
(* ImportTileElement.  A variant field of the destination is the value a   *)
(* getter returns when the raw record is read through one variant view     *)
(* (src->AsSurface() ...): [set, view, get] names the setter that stores   *)
(* it, the view and the getter.                                            *)
(***************************************************************************)
FieldsVia(view, pairs) ==
    [k \in 1..Len(pairs) |-> [set |-> pairs[k][1], view |-> view, get |-> pairs[k][2]]]

SurfaceFields ==
    FieldsVia("AsSurface",
      << <<"SetSlope", "GetSlope">>, <<"SetSurfaceStyle", "GetSurfaceStyle">>,
         <<"SetEdgeStyle", "GetEdgeStyle">>, <<"SetGrassLength", "GetGrassLength">>,
         <<"SetOwnership", "GetOwnership">>, <<"SetParkFences", "GetParkFences">>,
         <<"SetWaterHeight", "GetWaterHeight">>,
         <<"SetHasTrackThatNeedsWater", "HasTrackThatNeedsWater">> >>)

PathFields ==
    FieldsVia("AsPath",
      << <<"SetPathEntryIndex", "GetEntryIndex">>,
         <<"SetQueueBannerDirection", "GetQueueBannerDirection">>,
         <<"SetSloped", "IsSloped">>, <<"SetSlopeDirection", "GetSlopeDirection">>,
         <<"SetRideIndex", "GetRideIndex">>, <<"SetStationIndex", "GetStationIndex">>,
         <<"SetWide", "IsWide">>, <<"SetIsQueue", "IsQueue">>,
         <<"SetHasQueueBanner", "HasQueueBanner">>, <<"SetEdges", "GetEdges">>,
         <<"SetCorners", "GetCorners">>, <<"SetAddition", "GetAddition">>,
         <<"SetAdditionIsGhost", "AdditionIsGhost">>,
         <<"SetAdditionStatus", "GetAdditionStatus">> >>)

TrackFields ==
    FieldsVia("AsTrack",
      << <<"SetTrackType", "GetTrackType">>, <<"SetSequenceIndex", "GetSequenceIndex">>,
         <<"SetRideIndex", "GetRideIndex">>, <<"SetColourScheme", "GetColourScheme">>,
         <<"SetStationIndex", "GetStationIndex">>, <<"SetHasChain", "HasChain">>,
         <<"SetHasCableLift", "HasCableLift">>, <<"SetInverted", "IsInverted">>,
         <<"SetBrakeBoosterSpeed", "GetBrakeBoosterSpeed">>,
         <<"SetHasGreenLight", "HasGreenLight">>, <<"SetSeatRotation", "GetSeatRotation">>,
         <<"SetMazeEntry", "GetMazeEntry">>, <<"SetPhotoTimeout", "GetPhotoTimeout">> >>)

\* SetNeedsSupports is called only when NeedsSupports() returns true.
SmallSceneryFields ==
    FieldsVia("AsSmallScenery",
      << <<"SetEntryIndex", "GetEntryIndex">>, <<"SetAge", "GetAge">>,
         <<"SetSceneryQuadrant", "GetSceneryQuadrant">>,
         <<"SetPrimaryColour", "GetPrimaryColour">>,
         <<"SetSecondaryColour", "GetSecondaryColour">>,
         <<"SetNeedsSupports", "NeedsSupports">> >>)

EntranceFields ==
    FieldsVia("AsEntrance",
      << <<"SetEntranceType", "GetEntranceType">>, <<"SetRideIndex", "GetRideIndex">>,
         <<"SetStationIndex", "GetStationIndex">>,
         <<"SetSequenceIndex", "GetSequenceIndex">>, <<"SetPathType", "GetPathType">> >>)

WallFields ==
    FieldsVia("AsWall",
      << <<"SetEntryIndex", "GetEntryIndex">>, <<"SetSlope", "GetSlope">>,
         <<"SetPrimaryColour", "GetPrimaryColour">>,
         <<"SetSecondaryColour", "GetSecondaryColour">>,
         <<"SetTertiaryColour", "GetTertiaryColour">>,
         <<"SetAnimationFrame", "GetAnimationFrame">>,
         <<"SetBannerIndex", "GetBannerIndex">>, <<"SetAcrossTrack", "IsAcrossTrack">>,
         <<"SetAnimationIsBackwards", "AnimationIsBackwards">> >>)

LargeSceneryFields ==
    FieldsVia("AsLargeScenery",
      << <<"SetEntryIndex", "GetEntryIndex">>, <<"SetSequenceIndex", "GetSequenceIndex">>,
         <<"SetPrimaryColour", "GetPrimaryColour">>,
         <<"SetSecondaryColour", "GetSecondaryColour">>,
         <<"SetBannerIndex", "GetBannerIndex">> >>)

BannerFields ==
    FieldsVia("AsBanner",
      << <<"SetIndex", "GetIndex">>, <<"SetPosition", "GetPosition">>,
         <<"SetAllowedEdges", "GetAllowedEdges">> >>)

\* The tags the switch of ImportTileElement has a case for.
VariantTags ==
    {TILE_ELEMENT_TYPE_SURFACE, TILE_ELEMENT_TYPE_PATH, TILE_ELEMENT_TYPE_TRACK,
     TILE_ELEMENT_TYPE_SMALL_SCENERY, TILE_ELEMENT_TYPE_ENTRANCE, TILE_ELEMENT_TYPE_WALL,
     TILE_ELEMENT_TYPE_LARGE_SCENERY, TILE_ELEMENT_TYPE_BANNER}

\* The view each case of the switch reads the raw record through.
ViewOfTag(tag) ==
    CASE tag = TILE_ELEMENT_TYPE_SURFACE -> "AsSurface"
      [] tag = TILE_ELEMENT_TYPE_PATH -> "AsPath"
      [] tag = TILE_ELEMENT_TYPE_TRACK -> "AsTrack"
      [] tag = TILE_ELEMENT_TYPE_SMALL_SCENERY -> "AsSmallScenery"
      [] tag = TILE_ELEMENT_TYPE_ENTRANCE -> "AsEntrance"
      [] tag = TILE_ELEMENT_TYPE_WALL -> "AsWall"
      [] tag = TILE_ELEMENT_TYPE_LARGE_SCENERY -> "AsLargeScenery"
      [] tag = TILE_ELEMENT_TYPE_BANNER -> "AsBanner"
      [] OTHER -> "none"

\* A plausible slip: the wall case reads the raw record through the path view.
VariantFields_WallViaPath(tileElementType) ==
    CASE tileElementType = TILE_ELEMENT_TYPE_SURFACE -> SurfaceFields
      [] tileElementType = TILE_ELEMENT_TYPE_PATH -> PathFields
      [] tileElementType = TILE_ELEMENT_TYPE_TRACK -> TrackFields
      [] tileElementType = TILE_ELEMENT_TYPE_SMALL_SCENERY -> SmallSceneryFields
      [] tileElementType = TILE_ELEMENT_TYPE_ENTRANCE -> EntranceFields
      [] tileElementType = TILE_ELEMENT_TYPE_WALL ->
            [k \in 1..Len(WallFields) |-> [WallFields[k] EXCEPT !.view = "AsPath"]]
      [] tileElementType = TILE_ELEMENT_TYPE_LARGE_SCENERY -> LargeSceneryFields
      [] tileElementType = TILE_ELEMENT_TYPE_BANNER -> BannerFields
      [] OTHER -> NoFields

\* The switch of ImportTileElement; the default branch stores no variant field.
VariantFields(tileElementType) ==
    CASE tileElementType = TILE_ELEMENT_TYPE_SURFACE -> SurfaceFields
      [] tileElementType = TILE_ELEMENT_TYPE_PATH -> PathFields
      [] tileElementType = TILE_ELEMENT_TYPE_TRACK -> TrackFields
      [] tileElementType = TILE_ELEMENT_TYPE_SMALL_SCENERY -> SmallSceneryFields
      [] tileElementType = TILE_ELEMENT_TYPE_ENTRANCE -> EntranceFields
      [] tileElementType = TILE_ELEMENT_TYPE_WALL -> WallFields
      [] tileElementType = TILE_ELEMENT_TYPE_LARGE_SCENERY -> LargeSceneryFields
      [] tileElementType = TILE_ELEMENT_TYPE_BANNER -> BannerFields
      [] OTHER -> NoFields

\* The default branch of the switch: assert(false).
ReachesDefault(src) == GetType(src) \notin VariantTags

\* ClearAs(tileElementType), SetDirection, then flags and both heights, then
\* the fields of the case the tag selects.
ImportTileElement(src) ==
    [type |-> GetType(src) + GetDirection(src), flags |-> src.flags,
     base_height |-> src.base_height, clearance_height |-> src.clearance_height,
     pad |-> ZeroPad, fields |-> VariantFields(GetType(src))]

(***************************************************************************)
(* ImportTileElements.                                                     *)
(***************************************************************************)
\* A plausible slip: EightCarsCorrupt15 is missing from the test.
IsCorruptType_Missing15(tileElementType) ==
    \/ tileElementType = TILE_ELEMENT_TYPE_CORRUPT
    \/ tileElementType = TILE_ELEMENT_TYPE_EIGHT_CARS_CORRUPT_14

\* The three tags ImportTileElements copies instead of decoding.
IsCorruptType(tileElementType) ==
    \/ tileElementType = TILE_ELEMENT_TYPE_CORRUPT
    \/ tileElementType = TILE_ELEMENT_TYPE_EIGHT_CARS_CORRUPT_14
    \/ tileElementType = TILE_ELEMENT_TYPE_EIGHT_CARS_CORRUPT_15

\* Whether the loop body copies the record (TRUE) or decodes it (FALSE).
CopiesVerbatim(src) ==
    \/ src.base_height = PaddingBaseHeight
    \/ IsCorruptType(GetType(src))

\* A plausible slip: the source pointer runs one record ahead.
TileSrcIndex_OffByOne(index) == (index + 1) % RCT2_MAX_TILE_ELEMENTS

\* src = &_s6.tile_elements[index]
TileSrcIndex(index) == index

\* dst = &gTileElements[index]
TileDstIndex(index) == index

\* One iteration of the loop: st is [dst, log, aborted].  A failed assert
\* aborts the process unless the build defines NDEBUG; ClearAs and the
\* common fields have been stored by then.
TileLoopBody(index, st, nd) ==
    LET src == s6_tile_elements[TileSrcIndex(index)]
        copy == CopiesVerbatim(src)
        elem == IF copy THEN CopyTileElement(src) ELSE ImportTileElement(src)
        dflt == ~copy /\ ReachesDefault(src)
    IN  [dst |-> [st.dst EXCEPT ![TileDstIndex(index)] = elem],
         log |-> Append(st.log, [src |-> TileSrcIndex(index), dst |-> TileDstIndex(index),
                                 decoded |-> ~copy, default |-> dflt]),
         aborted |-> dflt /\ ~nd]

RECURSIVE TileLoop(_, _, _)
\* for (index = 0; index < RCT2_MAX_TILE_ELEMENTS; index++)
TileLoop(index, st, nd) ==
    IF index >= RCT2_MAX_TILE_ELEMENTS \/ st.aborted
    THEN st
    ELSE TileLoop(index + 1, TileLoopBody(index, st, nd), nd)

\* The stage of Import that follows ImportTileElements.
AfterTileElements == "ImportSprites"

ImportTileElements ==
    /\ pc = "ImportTileElements"
    /\ LET st == TileLoop(0, [dst |-> gTileElements, log |-> <<>>, aborted |-> FALSE], ndebug)
       IN  /\ gTileElements' = st.dst
           /\ tileLog' = st.log
           /\ pc' = IF st.aborted THEN "Aborted" ELSE AfterTileElements
    /\ UNCHANGED <<fileVars, randomVars, staffVars, infoVars, hostVars,
                   buildVars, s6_tile_elements, spawnVars, spriteVars, rideVars,
                   researchVars, loadVars>>


(***************************************************************************)
(* ImportPeepSpawns.                                                       *)
(***************************************************************************)
RCT12_MAX_PEEP_SPAWNS == 2

PEEP_SPAWN_UNDEFINED == 65535

\* String::Equals(a, b): ignoreCase defaults to false.
StringEquals(a, b) == a = b

\* A plausible slip: the entry of Amity Airfield is missing.
PatchedPeepSpawns_NoAmity(filename, spawns) ==
    IF \/ StringEquals(filename, "WW South America - Rio Carnival.SC6")
       \/ StringEquals(filename, "South America - Rio Carnival.SC6")
    THEN [spawns EXCEPT ![0] = [x |-> 2160, y |-> 3167, z |-> 6, direction |-> 1],
                        ![1].x = PEEP_SPAWN_UNDEFINED]
    ELSE IF \/ StringEquals(filename, "Great Wall of China Tourism Enhancement.SC6")
            \/ StringEquals(filename, "Asia - Great Wall of China Tourism Enhancement.SC6")
    THEN [spawns EXCEPT ![1].x = PEEP_SPAWN_UNDEFINED]
    ELSE spawns

\* The corrections ImportPeepSpawns makes to _s6.peep_spawns before it
\* migrates them, selected by _s6.scenario_filename.
PatchedPeepSpawns(filename, spawns) ==
    IF \/ StringEquals(filename, "WW South America - Rio Carnival.SC6")
       \/ StringEquals(filename, "South America - Rio Carnival.SC6")
    THEN [spawns EXCEPT ![0] = [x |-> 2160, y |-> 3167, z |-> 6, direction |-> 1],
                        ![1].x = PEEP_SPAWN_UNDEFINED]
    ELSE IF \/ StringEquals(filename, "Great Wall of China Tourism Enhancement.SC6")
            \/ StringEquals(filename, "Asia - Great Wall of China Tourism Enhancement.SC6")
    THEN [spawns EXCEPT ![1].x = PEEP_SPAWN_UNDEFINED]
    ELSE IF StringEquals(filename, "Amity Airfield.SC6")
    THEN [spawns EXCEPT ![0].y = 1296]
    ELSE spawns

\* A plausible slip: the height is copied without the rescale.
MigratedSpawn_NoRescale(raw) ==
    [x |-> raw.x, y |-> raw.y, z |-> raw.z, direction |-> raw.direction]

\* PeepSpawn spawn = { x, y, z * 16, direction }
MigratedSpawn(raw) ==
    [x |-> raw.x, y |-> raw.y, z |-> raw.z * 16, direction |-> raw.direction]

RECURSIVE PeepSpawnLoop(_, _, _)
\* for (i = 0; i < RCT12_MAX_PEEP_SPAWNS; i++) if (x != PEEP_SPAWN_UNDEFINED) push_back
PeepSpawnLoop(i, spawns, list) ==
    IF i >= RCT12_MAX_PEEP_SPAWNS
    THEN list
    ELSE PeepSpawnLoop(i + 1, spawns,
                       IF spawns[i].x # PEEP_SPAWN_UNDEFINED
                       THEN Append(list, MigratedSpawn(spawns[i]))
                       ELSE list)

\* gPeepSpawns.clear()
ClearedPeepSpawns(list) == <<>>

AfterPeepSpawns == "ImportResearchedRideTypes"

ImportPeepSpawns ==
    /\ pc = "ImportPeepSpawns"
    /\ LET patched == PatchedPeepSpawns(s6_scenario_filename, s6_peep_spawns)
       IN  /\ s6_peep_spawns' = patched
           /\ gPeepSpawns' = PeepSpawnLoop(0, patched, ClearedPeepSpawns(gPeepSpawns))
    /\ pc' = AfterPeepSpawns
    /\ UNCHANGED <<fileVars, randomVars, staffVars, infoVars, hostVars,
                   buildVars, tileVars, s6_scenario_filename, file_peep_spawns, spriteVars,
                   rideVars, researchVars, loadVars>>

(***************************************************************************)
(* Sprites and sprite lists (Import, lines 214-226).                       *)
(***************************************************************************)
NUM_SPRITE_LISTS == 6

SPRITE_LIST_NULL == 0

\* The width of gSpriteListCount's elements (uint16_t).
UInt16(n) == n % 65536

SpriteLists == 0..(NUM_SPRITE_LISTS - 1)

\* The index that ends a sprite list: the head of an empty list and the
\* next link of the last sprite of a list.
SPRITE_INDEX_NULL == 65535

\* std::memcpy(get_sprite(i), &_s6.sprites[i], sizeof(rct_sprite)) for every
\* i < RCT2_MAX_SPRITES; the other destination sprites are left alone.
ImportedSprites(dst, src) ==
    [i \in DOMAIN dst |-> IF i < RCT2_MAX_SPRITES THEN src[i] ELSE dst[i]]

\* A plausible slip: the extra capacity is credited to every list.
ImportedSpriteListCount_AllLists(list, rawCount) ==
    UInt16(rawCount + (MAX_SPRITES - RCT2_MAX_SPRITES))

\* gSpriteListCount[i] = _s6.sprite_lists_count[i], then
\* gSpriteListCount[SPRITE_LIST_NULL] += (MAX_SPRITES - RCT2_MAX_SPRITES).
ImportedSpriteListCount(list, rawCount) ==
    IF list = SPRITE_LIST_NULL
    THEN UInt16(rawCount + (MAX_SPRITES - RCT2_MAX_SPRITES))
    ELSE rawCount

\* A plausible slip: the peep spawns are not imported between the sprites
\* and the research bitmaps.
AfterSprites_NoPeepSpawns == "ImportResearchedRideTypes"

AfterSprites == "ImportPeepSpawns"

ImportSprites ==
    /\ pc = "ImportSprites"
    /\ gSprites' = ImportedSprites(gSprites, s6_sprites)
    /\ gSpriteListHead' = [i \in SpriteLists |-> s6_sprite_lists_head[i]]
    /\ gSpriteListCount' =
          [i \in SpriteLists |-> ImportedSpriteListCount(i, s6_sprite_lists_count[i])]
    /\ pc' = AfterSprites
    /\ UNCHANGED <<fileVars, randomVars, staffVars, infoVars, hostVars,
                   buildVars, tileVars, spawnVars, s6_sprites, s6_sprite_lists_head,
                   s6_sprite_lists_count, rideVars, researchVars, loadVars>>

(***************************************************************************)
(* ImportRides, ImportRide and ImportNumRiders.                            *)
(***************************************************************************)
RIDE_TYPE_NULL == 255

\* A plausible slip: peeps entering the ride are not counted.
IsRider_OnRideOnly(sprite, rideIndex) ==
    /\ sprite.sprite_identifier = "SPRITE_IDENTIFIER_PEEP"
    /\ sprite.current_ride = rideIndex
    /\ sprite.state = "PEEP_STATE_ON_RIDE"

\* The test ImportNumRiders applies to each raw sprite.
IsRider(sprite, rideIndex) ==
    /\ sprite.sprite_identifier = "SPRITE_IDENTIFIER_PEEP"
    /\ sprite.current_ride = rideIndex
    /\ sprite.state \in {"PEEP_STATE_ON_RIDE", "PEEP_STATE_ENTERING_RIDE"}

RECURSIVE NumRidersLoop(_, _, _)
\* for (const rct_sprite& sprite : _s6.sprites) ... numRiders++ (uint16_t)
NumRidersLoop(i, rideIndex, numRiders) ==
    IF i >= RCT2_MAX_SPRITES
    THEN numRiders
    ELSE NumRidersLoop(i + 1, rideIndex,
                       IF IsRider(s6_sprites[i], rideIndex)
                       THEN UInt16(numRiders + 1)
                       ELSE numRiders)

ImportNumRiders(rideIndex) == NumRidersLoop(0, rideIndex, 0)

RawStationIndices == 0..(RCT12_MAX_STATIONS_PER_RIDE - 1)

StationIndices == 0..(MAX_STATIONS - 1)

\* A LocationXY8 is a union of the bytes x and y with the 16-bit word xy,
\* x being the low byte.
XY8(x, y) == [x |-> x, y |-> y]

XY8Word(coords) == coords.x + 256 * coords.y

\* RCT_XY8_UNDEFINED is the word 0xFFFF.
RCT_XY8_UNDEFINED == XY8(255, 255)

\* ride_clear_entrance_location / ride_clear_exit_location: the location
\* is the null location.
ClearedLocation == [isNull |-> TRUE, x |-> 0, y |-> 0, z |-> 0, direction |-> 0]

\* ride_set_entrance_location / ride_set_exit_location with { x, y, z,
\* direction }.
SetLocation(x, y, z, direction) ==
    [isNull |-> FALSE, x |-> x, y |-> y, z |-> z, direction |-> direction]

\* Line 544-547.
ImportEntranceLocation(src, i) ==
    IF XY8Word(src.entrances[i]) = XY8Word(RCT_XY8_UNDEFINED)
    THEN ClearedLocation
    ELSE SetLocation(src.entrances[i].x, src.entrances[i].y, src.station_heights[i], 0)

\* Line 549-552: the test reads the exit record, the coordinates are those
\* of the entrance record.
ImportExitLocation(src, i) ==
    IF XY8Word(src.exits[i]) = XY8Word(RCT_XY8_UNDEFINED)
    THEN ClearedLocation
    ELSE SetLocation(src.entrances[i].x, src.entrances[i].y, src.station_heights[i], 0)

\* Line 535-570: the stations of the raw format are imported, the others
\* are cleared.
ImportEntrances(src) ==
    [i \in StationIndices |->
        IF i < RCT12_MAX_STATIONS_PER_RIDE THEN ImportEntranceLocation(src, i)
        ELSE ClearedLocation]

ImportExits(src) ==
    [i \in StationIndices |->
        IF i < RCT12_MAX_STATIONS_PER_RIDE THEN ImportExitLocation(src, i)
        ELSE ClearedLocation]

\* A destination ride without entrances and exits.
RideWithoutStations(index, type, numRiders) ==
    [id |-> index, type |-> type, num_riders |-> numRiders,
     entrances |-> [i \in StationIndices |-> ClearedLocation],
     exits |-> [i \in StationIndices |-> ClearedLocation]]

\* A raw ride without entrances and exits.
RawRideWithoutStations(type, numRiders) ==
    [type |-> type, num_riders |-> numRiders,
     entrances |-> [i \in RawStationIndices |-> RCT_XY8_UNDEFINED],
     exits |-> [i \in RawStationIndices |-> RCT_XY8_UNDEFINED],
     station_heights |-> [i \in RawStationIndices |-> 0]]

\* *dst = {}; dst->id = rideIndex; dst->type = src->type; ...; the
\* stations; ...; ImportNumRiders(dst, rideIndex).  The raw num_riders is
\* not copied.
ImportRide(src, rideIndex) ==
    [id |-> rideIndex, type |-> src.type, num_riders |-> ImportNumRiders(rideIndex),
     entrances |-> ImportEntrances(src), exits |-> ImportExits(src)]

RideIndices == 0..(RCT12_MAX_RIDES_IN_PARK - 1)

AfterRides == "PostRepair"

ImportRides ==
    /\ pc = "ImportRides"
    /\ gRides' = [index \in RideIndices |->
                    IF s6_rides[index].type # RIDE_TYPE_NULL
                    THEN ImportRide(s6_rides[index], index)
                    ELSE gRides[index]]
    /\ pc' = AfterRides
    /\ UNCHANGED <<fileVars, randomVars, staffVars, infoVars, hostVars,
                   buildVars, tileVars, spawnVars, spriteVars, s6_rides, researchVars,
                   loadVars>>

(***************************************************************************)
(* ImportResearchedRideTypes, ImportResearchedRideEntries and              *)
(* ImportResearchedSceneryItems.  The set of invented items stands for the *)
(* per-item "invented" flags.                                              *)
(***************************************************************************)
\* index >> 5
QuadIndex(index) == index \div 32

\* A plausible slip: the bit index is masked with 0x0F.
BitIndex_Mask0F(index) == index % 16

\* index & 0x1F
BitIndex(index) == index % 32

\* word & ((uint32_t)1 << bitIndex); a 32-bit word is the set of the
\* positions of its set bits.
BitIsSet(word, bitIndex) == bitIndex \in word

\* set_every_ride_type_not_invented(), set_every_ride_entry_not_invented(),
\* set_all_scenery_items_not_invented()
NoneInvented(before) == {}

\* The loop of each of the three functions: every index below count whose
\* bit is set is marked invented, after the baseline.
ImportResearched(before, words, count) ==
    NoneInvented(before)
        \cup {index \in 0..(count - 1) : BitIsSet(words[QuadIndex(index)], BitIndex(index))}

ImportResearchedRideTypes ==
    /\ pc = "ImportResearchedRideTypes"
    /\ inventedRideTypes' =
          ImportResearched(inventedRideTypes, s6_researched_ride_types, RIDE_TYPE_COUNT)
    /\ pc' = "ImportResearchedRideEntries"
    /\ UNCHANGED <<fileVars, randomVars, staffVars, infoVars, hostVars,
                   buildVars, tileVars, spawnVars, spriteVars, rideVars,
                   s6_researched_ride_types, s6_researched_ride_entries,
                   s6_researched_scenery_items, inventedRideEntries, inventedSceneryItems,
                   loadVars>>

ImportResearchedRideEntries ==
    /\ pc = "ImportResearchedRideEntries"
    /\ inventedRideEntries' =
          ImportResearched(inventedRideEntries, s6_researched_ride_entries, MAX_RIDE_OBJECTS)
    /\ pc' = "ImportResearchedSceneryItems"
    /\ UNCHANGED <<fileVars, randomVars, staffVars, infoVars, hostVars,
                   buildVars, tileVars, spawnVars, spriteVars, rideVars,
                   s6_researched_ride_types, s6_researched_ride_entries,
                   s6_researched_scenery_items, inventedRideTypes, inventedSceneryItems,
                   loadVars>>

AfterResearch == "ImportParkFields"

ImportResearchedSceneryItems ==
    /\ pc = "ImportResearchedSceneryItems"
    /\ inventedSceneryItems' =
          ImportResearched(inventedSceneryItems, s6_researched_scenery_items,
                           RCT2_MAX_RESEARCHED_SCENERY_ITEMS)
    /\ pc' = AfterResearch
    /\ UNCHANGED <<fileVars, randomVars, staffVars, infoVars, hostVars,
                   buildVars, tileVars, spawnVars, spriteVars, rideVars,
                   s6_researched_ride_types, s6_researched_ride_entries,
                   s6_researched_scenery_items, inventedRideTypes, inventedRideEntries,
                   loadVars>>

(***************************************************************************)
(* LoadFromStream.  stream.chunks is the number of chunks the stream holds *)
(* intact: ReadChunk throws once that many have been read.                 *)
(***************************************************************************)
S6_TYPE_SAVEDGAME == 0

S6_TYPE_SCENARIO == 1

\* The classic_flag of a save that is not supported (0xf).
UnsupportedClassicFlag == 15

NoError == [kind |-> "none", what |-> ""]

Chunk(into, size) == [into |-> into, size |-> size]

HeaderChunk == Chunk("_s6.header", "sizeof(_s6.header)")

InfoChunk == Chunk("_s6.info", "sizeof(_s6.info)")

\* The chunks read after the packed objects when isScenario.
ScenarioChunks ==
    << Chunk("_s6.objects", "sizeof(_s6.objects)"),
       Chunk("_s6.elapsed_months", "16"),
       Chunk("_s6.tile_elements", "sizeof(_s6.tile_elements)"),
       Chunk("_s6.next_free_tile_element_pointer_index", "2560076"),
       Chunk("_s6.guests_in_park", "4"),
       Chunk("_s6.last_guests_in_park", "8"),
       Chunk("_s6.park_rating", "2"),
       Chunk("_s6.active_research_types", "1082"),
       Chunk("_s6.current_expenditure", "16"),
       Chunk("_s6.park_value", "4"),
       Chunk("_s6.completed_company_value", "483816") >>

\* A plausible slip: the load of a saved game stops after the object list.
SavedGameChunks_ObjectsOnly == << Chunk("_s6.objects", "sizeof(_s6.objects)") >>

\* A plausible slip: the last chunk of a saved game is read with the size
\* it has in a scenario.
SavedGameChunks_ScenarioSize ==
    << Chunk("_s6.objects", "sizeof(_s6.objects)"),
       Chunk("_s6.elapsed_months", "16"),
       Chunk("_s6.tile_elements", "sizeof(_s6.tile_elements)"),
       Chunk("_s6.next_free_tile_element_pointer_index", "2560076") >>

\* The chunks read after the packed objects otherwise.
SavedGameChunks ==
    << Chunk("_s6.objects", "sizeof(_s6.objects)"),
       Chunk("_s6.elapsed_months", "16"),
       Chunk("_s6.tile_elements", "sizeof(_s6.tile_elements)"),
       Chunk("_s6.next_free_tile_element_pointer_index", "3048816") >>

LayoutChunks(scenario) == IF scenario THEN ScenarioChunks ELSE SavedGameChunks

\* chunkReader.ReadChunk succeeds while the stream still holds a chunk.
CanReadChunk == Len(chunkLog) < stream.chunks

\* A plausible slip: the exception is swallowed and the load starts over.
Throw_Retry(kind, what) ==
    /\ error' = [kind |-> kind, what |-> what]
    /\ pc' = "ReadHeader"

\* throw: the call ends with the exception.
Throw(kind, what) ==
    /\ error' = [kind |-> kind, what |-> what]
    /\ pc' = "Failed"

\* A plausible slip: the checksum is validated for both layouts.
ChecksumRejected_BothLayouts(scenario, allow, valid) == ~allow /\ ~valid

\* isScenario && !allow_loading_with_incorrect_checksum && !ValidateChecksum(stream)
ChecksumRejected(scenario, allow, valid) == scenario /\ ~allow /\ ~valid

\* Line 108-111.
ValidateChecksum ==
    /\ pc = "LoadFromStream"
    /\ IF ChecksumRejected(isScenario, allow_loading_with_incorrect_checksum,
                           stream.checksumValid)
       THEN Throw("IOException", "Invalid checksum.")
       ELSE pc' = "ReadHeader" /\ UNCHANGED error
    /\ UNCHANGED <<fileVars, randomVars, staffVars, infoVars, hostVars,
                   buildVars, tileVars, spawnVars, spriteVars, rideVars, researchVars,
                   isScenario, allow_loading_with_incorrect_checksum, stream, s6_header,
                   chunkLog, packedExported>>

\* Line 113-114.
ReadHeader ==
    /\ pc = "ReadHeader"
    /\ IF CanReadChunk
       THEN /\ chunkLog' = Append(chunkLog, HeaderChunk)
            /\ s6_header' = stream.header
            /\ pc' = "SelectLayout"
            /\ UNCHANGED error
       ELSE /\ Throw("SawyerChunkException", "ReadChunk")
            /\ UNCHANGED <<chunkLog, s6_header>>
    /\ UNCHANGED <<fileVars, randomVars, staffVars, infoVars, hostVars,
                   buildVars, tileVars, spawnVars, spriteVars, rideVars, researchVars,
                   isScenario, allow_loading_with_incorrect_checksum, stream,
                   packedExported>>

\* A plausible slip: the tag of either known layout is accepted.
TypeMatchesLayout_EitherKnown(header, scenario) ==
    header.type \in {S6_TYPE_SCENARIO, S6_TYPE_SAVEDGAME}

\* _s6.header.type == S6_TYPE_SCENARIO when isScenario, S6_TYPE_SAVEDGAME otherwise.
TypeMatchesLayout(header, scenario) ==
    IF scenario THEN header.type = S6_TYPE_SCENARIO ELSE header.type = S6_TYPE_SAVEDGAME

\* Line 117-131: the type check of the selected layout, then the scenario
\* info chunk when isScenario.
SelectLayout ==
    /\ pc = "SelectLayout"
    /\ IF ~TypeMatchesLayout(s6_header, isScenario)
       THEN /\ Throw("std::runtime_error",
                     IF isScenario THEN "Park is not a scenario."
                                   ELSE "Park is not a saved game.")
            /\ UNCHANGED <<chunkLog, s6_info>>
       ELSE IF ~isScenario
       THEN pc' = "CheckClassicFlag" /\ UNCHANGED <<chunkLog, error, s6_info>>
       ELSE IF CanReadChunk
       THEN /\ chunkLog' = Append(chunkLog, InfoChunk)
            /\ s6_info' = file_info
            /\ pc' = "CheckClassicFlag"
            /\ UNCHANGED error
       ELSE /\ Throw("SawyerChunkException", "ReadChunk")
            /\ UNCHANGED <<chunkLog, s6_info>>
    /\ UNCHANGED <<fileVars, randomVars, staffVars, file_info, gS6Info, hostVars,
                   buildVars, tileVars, spawnVars, spriteVars, rideVars, researchVars,
                   isScenario, allow_loading_with_incorrect_checksum, stream, s6_header,
                   packedExported>>

\* Line 133-136.
CheckClassicFlag ==
    /\ pc = "CheckClassicFlag"
    /\ IF s6_header.classic_flag = UnsupportedClassicFlag
       THEN Throw("UnsupportedRCTCFlagException", "classic_flag")
       ELSE pc' = "ExportPackedObjects" /\ UNCHANGED error
    /\ UNCHANGED <<fileVars, randomVars, staffVars, infoVars, hostVars,
                   buildVars, tileVars, spawnVars, spriteVars, rideVars, researchVars,
                   isScenario, allow_loading_with_incorrect_checksum, stream, s6_header,
                   chunkLog, packedExported>>

\* Line 140-143: one ExportPackedObject for each announced packed object.
ExportPackedObjects ==
    /\ pc = "ExportPackedObjects"
    /\ packedExported' = s6_header.num_packed_objects
    /\ pc' = "ReadChunks"
    /\ UNCHANGED <<fileVars, randomVars, staffVars, infoVars, hostVars,
                   buildVars, tileVars, spawnVars, spriteVars, rideVars, researchVars,
                   isScenario, allow_loading_with_incorrect_checksum, stream, s6_header,
                   chunkLog, error>>

\* The chunks read before the packed objects.
LeadingChunks(scenario) == IF scenario THEN 2 ELSE 1

\* Of the fields of _s6 that the model holds, those a chunk fills.  A chunk
\* starts at the field it is read into and fills the fields that follow up
\* to its size; Import reads the fields in their order in _s6 (lines
\* 207-394), which places them between the fields the chunks start at.  The
\* chunk of 2560076 bytes at next_free_tile_element_pointer_index is the
\* index (4 bytes), the sprites (10000 of 256 bytes), the list heads and
\* counts (12 bytes each) and 48 bytes more, the peep spawns among them:
\* it ends where researched_ride_types begins, and the next chunk of the
\* scenario layout starts at guests_in_park, behind the bitmaps of the
\* rides, so no chunk of a scenario fills these.  The chunk of 3048816
\* bytes holds them and the rest of _s6 as well.  In the scenario layout
\* researched_scenery_items lies behind the 8 bytes read at
\* last_guests_in_park and before park_rating, so no chunk fills it
\* either; map_size, rides and scenario_filename follow
\* completed_company_value.
ChunkHolds(chunk) ==
    IF chunk.into = "_s6.elapsed_months" THEN {"elapsed_months"}
    ELSE IF chunk.into = "_s6.tile_elements" THEN {"tile_elements"}
    ELSE IF chunk.into = "_s6.next_free_tile_element_pointer_index"
    THEN {"sprites", "sprite_lists_head", "sprite_lists_count", "peep_spawns"}
             \cup (IF chunk.size = "3048816"
                   THEN {"researched_ride_types", "researched_ride_entries",
                         "researched_scenery_items", "map_size", "rides",
                         "scenario_filename"}
                   ELSE {})
    ELSE IF chunk.into = "_s6.completed_company_value"
    THEN {"map_size", "rides", "scenario_filename"}
    ELSE {}

\* Line 145-165: the next chunk of the selected layout is read into _s6.
ReadNextChunk ==
    /\ pc = "ReadChunks"
    /\ LET k == Len(chunkLog) - LeadingChunks(isScenario) + 1
           holds == IF CanReadChunk /\ k <= Len(LayoutChunks(isScenario))
                    THEN ChunkHolds(LayoutChunks(isScenario)[k])
                    ELSE {}
           Read(field, buffer) == IF field \in holds THEN file_data[field] ELSE buffer
       IN  /\ k <= Len(LayoutChunks(isScenario))
           /\ IF CanReadChunk
              THEN /\ chunkLog' = Append(chunkLog, LayoutChunks(isScenario)[k])
                   /\ UNCHANGED <<pc, error>>
              ELSE /\ Throw("SawyerChunkException", "ReadChunk")
                   /\ UNCHANGED chunkLog
           /\ s6_elapsed_months' = Read("elapsed_months", s6_elapsed_months)
           /\ s6_tile_elements' = Read("tile_elements", s6_tile_elements)
           /\ s6_sprites' = Read("sprites", s6_sprites)
           /\ s6_sprite_lists_head' = Read("sprite_lists_head", s6_sprite_lists_head)
           /\ s6_sprite_lists_count' = Read("sprite_lists_count", s6_sprite_lists_count)
           /\ s6_peep_spawns' = IF "peep_spawns" \in holds THEN file_peep_spawns
                                                            ELSE s6_peep_spawns
           /\ s6_researched_ride_types' =
                  Read("researched_ride_types", s6_researched_ride_types)
           /\ s6_researched_ride_entries' =
                  Read("researched_ride_entries", s6_researched_ride_entries)
           /\ s6_researched_scenery_items' =
                  Read("researched_scenery_items", s6_researched_scenery_items)
           /\ s6_map_size' = Read("map_size", s6_map_size)
           /\ s6_rides' = Read("rides", s6_rides)
           /\ s6_scenario_filename' = Read("scenario_filename", s6_scenario_filename)
    /\ UNCHANGED <<fileVars, randomVars, staffVars, infoVars, buildVars,
                   entry, path, s6Path, objectsLoadable, objectsLoaded, initAllCalls,
                   gDateMonthsElapsed, gScenarioFileName, gLandOwnership, gErrorType,
                   gErrorStringId,
                   gTileElements, tileLog, file_peep_spawns, gPeepSpawns,
                   gSprites, gSpriteListHead, gSpriteListCount, gRides,
                   inventedRideTypes, inventedRideEntries, inventedSceneryItems,
                   isScenario, allow_loading_with_incorrect_checksum, stream, s6_header,
                   packedExported>>

\* A path: its directory, its file name and, as the sequence of its
\* characters, the extension the file name ends with.  String::Empty is the
\* empty path and NullPath the value of _s6Path before any load.
StringEmpty == [dir |-> "", name |-> "", ext |-> <<>>]

NullPath == [dir |-> "nullptr", name |-> "nullptr", ext |-> <<>>]

\* Path::GetExtension.
GetExtension(p) == p.ext

\* The extensions ".sc6", ".sv6", ".SC6" and ".txt".
Ext_sc6 == <<46, 115, 99, 54>>

Ext_sv6 == <<46, 115, 118, 54>>

Ext_SC6 == <<46, 83, 67, 54>>

Ext_txt == <<46, 116, 120, 116>>

\* The lower-case letter of an upper-case letter, any other character
\* itself.
ToLower(char) == IF char >= 65 /\ char <= 90 THEN char + 32 ELSE char

\* String::Equals(a, b, true): equal but for the case of the letters.
StringEqualsIgnoreCase(a, b) ==
    /\ Len(a) = Len(b)
    /\ \A i \in 1..Len(a) : ToLower(a[i]) = ToLower(b[i])

\* The path argument of LoadFromStream: LoadSavedGame and LoadScenario pass
\* none, so it is the default.
PathArgument == IF entry = "LoadFromStream" THEN path ELSE StringEmpty

\* A plausible slip: the load goes on to decode the tile elements it read.
AfterLoad_DecodesTiles == "ImportTileElements"

\* LoadFromStream returns to its caller.
AfterLoad == "Loaded"

\* Line 167-169: every chunk of the layout has been read.
LoadReturn ==
    /\ pc = "ReadChunks"
    /\ Len(chunkLog) = LeadingChunks(isScenario) + Len(LayoutChunks(isScenario))
    /\ s6Path' = PathArgument
    /\ pc' = AfterLoad
    /\ UNCHANGED <<fileVars, randomVars, staffVars, infoVars,
                   entry, path, objectsLoadable, objectsLoaded, s6_map_size, initAllCalls,
                   s6_elapsed_months, gDateMonthsElapsed, gScenarioFileName, gLandOwnership,
                   gErrorType, gErrorStringId,
                   buildVars, tileVars, spawnVars, spriteVars, rideVars, researchVars,
                   loadVars>>

(***************************************************************************)
(* load_from_sv6 and load_from_sc6, LoadSavedGame and LoadScenario, and    *)
(* the stages of Import that lie between the importers above.              *)
(***************************************************************************)
Loaders == {"load_from_sv6", "load_from_sc6"}

\* Path::GetFileName.
GetFileName(p) == p.name

\* Line 1043 and 1080, 88-91 and 96-99: the loader calls LoadSavedGame or
\* LoadScenario, which calls LoadFromStream with isScenario false or true.
CallLoad ==
    /\ pc = "load_from_s6"
    /\ entry \in Loaders
    /\ isScenario' = (entry = "load_from_sc6")
    /\ pc' = "LoadFromStream"
    /\ UNCHANGED <<fileVars, randomVars, staffVars, infoVars, hostVars, buildVars, tileVars, spawnVars, spriteVars, rideVars,
                   researchVars, allow_loading_with_incorrect_checksum, stream, s6_header,
                   chunkLog, packedExported, error>>

\* Line 74: String::Equals(extension, ".sc6", true).
LoadsAsScenario(p) == StringEqualsIgnoreCase(GetExtension(p), Ext_sc6)

\* Line 78: String::Equals(extension, ".sv6", true).
LoadsAsSavedGame(p) == StringEqualsIgnoreCase(GetExtension(p), Ext_sv6)

\* Line 71-86, 88-91 and 96-99: Load(path) calls LoadScenario or
\* LoadSavedGame by the extension of the path, which calls LoadFromStream
\* with isScenario true or false; any other extension is an error.
Load ==
    /\ pc = "Load"
    /\ entry = "Load"
    /\ IF LoadsAsScenario(path)
       THEN isScenario' = TRUE /\ pc' = "LoadFromStream" /\ UNCHANGED error
       ELSE IF LoadsAsSavedGame(path)
       THEN isScenario' = FALSE /\ pc' = "LoadFromStream" /\ UNCHANGED error
       ELSE /\ Throw("std::runtime_error", "Invalid RCT2 park extension.")
            /\ UNCHANGED isScenario
    /\ UNCHANGED <<fileVars, randomVars, staffVars, infoVars, hostVars, buildVars, tileVars, spawnVars,
                   spriteVars, rideVars, researchVars,
                   allow_loading_with_incorrect_checksum, stream, s6_header, chunkLog,
                   packedExported>>

\* Line 92-93 and 100-101: LoadFromStream has returned; LoadSavedGame or
\* LoadScenario stores the path and returns, to the loader or through Load
\* to its caller.
StorePath ==
    /\ pc = "Loaded"
    /\ entry \in Loaders \cup {"Load"}
    /\ s6Path' = path
    /\ pc' = IF entry = "Load" THEN "Returned" ELSE "LoadObjects"
    /\ UNCHANGED <<fileVars, randomVars, staffVars, infoVars,
                   entry, path, objectsLoadable, objectsLoaded, s6_map_size, initAllCalls,
                   s6_elapsed_months, gDateMonthsElapsed, gScenarioFileName, gLandOwnership,
                   gErrorType, gErrorStringId,
                   buildVars, tileVars, spawnVars, spriteVars, rideVars, researchVars,
                   loadVars>>

\* A plausible slip: the result of LoadObjects is not waited for.
LoadObjects_Unchecked ==
    /\ pc = "LoadObjects"
    /\ objectsLoaded' = objectsLoadable
    /\ pc' = "Initialise"
    /\ UNCHANGED <<fileVars, randomVars, staffVars, infoVars,
                   entry, path, s6Path, objectsLoadable, s6_map_size, initAllCalls,
                   s6_elapsed_months, gDateMonthsElapsed, gScenarioFileName, gLandOwnership,
                   gErrorType, gErrorStringId,
                   buildVars, tileVars, spawnVars, spriteVars, rideVars, researchVars,
                   loadVars>>

\* Line 1044 and 1081: objectMgr.LoadObjects on the required objects.
LoadObjects ==
    /\ pc = "LoadObjects"
    /\ IF objectsLoadable
       THEN objectsLoaded' = TRUE /\ pc' = "Initialise" /\ UNCHANGED error
       ELSE Throw("ObjectLoadException", "LoadObjects") /\ UNCHANGED objectsLoaded
    /\ UNCHANGED <<fileVars, randomVars, staffVars, infoVars,
                   entry, path, s6Path, objectsLoadable, s6_map_size, initAllCalls,
                   s6_elapsed_months, gDateMonthsElapsed, gScenarioFileName, gLandOwnership,
                   gErrorType, gErrorStringId,
                   buildVars, tileVars, spawnVars, spriteVars, rideVars, researchVars,
                   isScenario, allow_loading_with_incorrect_checksum, stream, s6_header,
                   chunkLog, packedExported>>

\* A plausible slip: the world state is reset for a map of the default size.
InitAllCall_DefaultSize(calls, mapSize) == Append(calls, 0)

\* GetGameState()->InitAll(_s6.map_size)
InitAllCall(calls, mapSize) == Append(calls, mapSize)

\* Line 180, 797-800: Import starts with Initialise.  Of the reset, the
\* model shows the call and the emptied peep spawn list, ride slots,
\* research flags, land ownership and date.
Initialise ==
    /\ pc = "Initialise"
    /\ initAllCalls' = InitAllCall(initAllCalls, s6_map_size)
    /\ gPeepSpawns' = <<>>
    /\ gRides' = [index \in DOMAIN gRides |-> RideWithoutStations(index, RIDE_TYPE_NULL, 0)]
    /\ inventedRideTypes' = {}
    /\ inventedRideEntries' = {}
    /\ inventedSceneryItems' = {}
    /\ gLandOwnership' = {}
    /\ gDateMonthsElapsed' = 0
    /\ pc' = "ImportScenarioInfo"
    /\ UNCHANGED <<fileVars, randomVars, staffVars, infoVars,
                   entry, path, s6Path, objectsLoadable, objectsLoaded, s6_map_size,
                   s6_elapsed_months, gScenarioFileName, gErrorType, gErrorStringId,
                   buildVars, tileVars, s6_scenario_filename, s6_peep_spawns,
                   file_peep_spawns, spriteVars, s6_rides, s6_researched_ride_types,
                   s6_researched_ride_entries, s6_researched_scenery_items, loadVars>>

(***************************************************************************)
(* The scenario name and details (line 183-205).  A string is the sequence *)
(* of its bytes before the terminating zero.                               *)
(***************************************************************************)
\* The first and the last of the colour format codes.
FORMAT_COLOUR_CODE_START == 142

FORMAT_COLOUR_CODE_END == 156

\* String::ContainsColourCode: some byte of the string is a colour format
\* code.
ContainsColourCode(string) ==
    \E i \in 1..Len(string) :
        string[i] >= FORMAT_COLOUR_CODE_START /\ string[i] <= FORMAT_COLOUR_CODE_END

\* The UTF-8 encoding of one character of the legacy single-byte encoding:
\* a 7-bit character is one byte, an upper character is the two-byte
\* sequence of its code point.
Utf8OfLegacyByte(byte) ==
    IF byte < 128 THEN <<byte>> ELSE <<192 + (byte \div 64), 128 + (byte % 64)>>

RECURSIVE rct2_to_utf8(_)
\* rct2_to_utf8(src, RCT2_LANGUAGE_ID_ENGLISH_UK): the string, character
\* by character, in UTF-8.  The string is converted half by half, which
\* gives the characters in the same order.
rct2_to_utf8(src) ==
    IF src = <<>> THEN <<>>
    ELSE IF Len(src) = 1 THEN Utf8OfLegacyByte(src[1])
    ELSE rct2_to_utf8(SubSeq(src, 1, Len(src) \div 2))
            \o rct2_to_utf8(SubSeq(src, Len(src) \div 2 + 1, Len(src)))

\* sizeof(gS6Info.name) and sizeof(gS6Info.details)
InfoNameSize == 64

InfoDetailsSize == 256

\* safe_strcpy(destination, source, size): at most size - 1 bytes and the
\* terminating zero.
safe_strcpy(source, size) ==
    IF Len(source) < size THEN source ELSE SubSeq(source, 1, size - 1)

\* A plausible slip: only the name is inspected.
AlreadyInUTF8_NameOnly(info) == ContainsColourCode(info.name)
\* Line 187-192: one flag for both strings, set when the name or the
\* details contain a colour code.
AlreadyInUTF8(info) ==
    ContainsColourCode(info.name) \/ ContainsColourCode(info.details)

\* Line 183-205: gS6Info = _s6.info, then both strings are written again,
\* converted or as they are.
ImportInfoStrings(info) ==
    IF ~AlreadyInUTF8(info)
    THEN [name |-> safe_strcpy(rct2_to_utf8(info.name), InfoNameSize),
          details |-> safe_strcpy(rct2_to_utf8(info.details), InfoDetailsSize)]
    ELSE [name |-> safe_strcpy(info.name, InfoNameSize),
          details |-> safe_strcpy(info.details, InfoDetailsSize)]

\* Line 183-210: the scenario info and the date.
ImportScenarioInfo ==
    /\ pc = "ImportScenarioInfo"
    /\ gS6Info' = ImportInfoStrings(s6_info)
    /\ gDateMonthsElapsed' = s6_elapsed_months
    /\ pc' = "ImportTileElements"
    /\ UNCHANGED <<fileVars, randomVars, staffVars, s6_info, file_info,
                   entry, path, s6Path, objectsLoadable, objectsLoaded,
                   s6_map_size, initAllCalls, s6_elapsed_months, gScenarioFileName,
                   gLandOwnership, gErrorType, gErrorStringId,
                   buildVars, tileVars, spawnVars, spriteVars, rideVars, researchVars,
                   loadVars>>

\* Line 376-385: the file name of the path for a scenario, the stored name
\* for a saved game.
ScenarioFileName(header, realPath, rawFilename) ==
    IF header.type = S6_TYPE_SCENARIO THEN GetFileName(realPath) ELSE rawFilename

\* Line 269-392: the park fields between the research bitmaps and the rides.
ImportParkFields ==
    /\ pc = "ImportParkFields"
    /\ gScenarioFileName' = ScenarioFileName(s6_header, s6Path, s6_scenario_filename)
    /\ pc' = "ImportRides"
    /\ UNCHANGED <<fileVars, randomVars, staffVars, infoVars,
                   entry, path, s6Path, objectsLoadable, objectsLoaded, s6_map_size,
                   initAllCalls, s6_elapsed_months, gDateMonthsElapsed, gLandOwnership,
                   gErrorType, gErrorStringId,
                   buildVars, tileVars, spawnVars, spriteVars, rideVars, researchVars,
                   loadVars>>

(***************************************************************************)
(* The post-repair calls of line 467-476.  Their code is not part of the   *)
(* importer; they do what the specification of the post-repair pass says.  *)
(* map_update_tile_pointers, game_convert_strings_to_utf8,                 *)
(* map_count_remaining_land_rights and check_for_spatial_index_cycles      *)
(* rebuild structures that are derived from the imported state and are no  *)
(* variables here.                                                         *)
(***************************************************************************)
\* The bit of the flags of a tile element that marks it as a ghost.
TILE_ELEMENT_FLAG_GHOST == 16

\* map_strip_ghost_flag_from_elements, for one tile element.
StripGhostFlag(element) ==
    [element EXCEPT !.flags =
        @ - TILE_ELEMENT_FLAG_GHOST * ((@ \div TILE_ELEMENT_FLAG_GHOST) % 2)]

\* What determine_ride_entrance_and_exit_locations finds for a location
\* that is set: the entrance element of the station stands on the tile the
\* location names, on another tile, or nowhere on the map.
LocationOutcomes == {"confirmed", "relocated", "cleared"}

\* The tile of the map on which the entrance element of a station is found
\* when it is not where the location says.
FoundLocation(location) ==
    SetLocation((location.x + 1) % 256, location.y, location.z, 1)

\* The location after determine_ride_entrance_and_exit_locations.  A cleared
\* location stays cleared.
DeterminedLocation(location, outcome) ==
    IF location.isNull \/ outcome = "confirmed" THEN location
    ELSE IF outcome = "relocated" THEN FoundLocation(location)
    ELSE ClearedLocation

\* The locations of one ride that are set: "entrances" or "exits", station.
SetLocationsOf(ride) ==
    {<<"entrances", i>> : i \in {k \in StationIndices : ~ride.entrances[k].isNull}}
        \cup {<<"exits", i>> : i \in {k \in StationIndices : ~ride.exits[k].isNull}}

\* determine_ride_entrance_and_exit_locations for one ride; found gives the
\* outcome for each of its set locations.
DeterminedRide(ride, found) ==
    [ride EXCEPT
        !.entrances = [i \in StationIndices |->
                          IF <<"entrances", i>> \in DOMAIN found
                          THEN DeterminedLocation(@[i], found[<<"entrances", i>>])
                          ELSE @[i]],
        !.exits = [i \in StationIndices |->
                      IF <<"exits", i>> \in DOMAIN found
                      THEN DeterminedLocation(@[i], found[<<"exits", i>>])
                      ELSE @[i]]]

\* The sprites a list reaches from index on, in the order of their next
\* links; the walk ends at SPRITE_INDEX_NULL and at a sprite it has passed.
RECURSIVE ListWalk(_, _, _)
ListWalk(sprites, index, walked) ==
    IF index \notin DOMAIN sprites \/ index \in {walked[k] : k \in 1..Len(walked)}
    THEN walked
    ELSE ListWalk(sprites, sprites[index].next, Append(walked, index))

\* The list that begins at head runs into itself.
ListHasCycle(sprites, head) ==
    LET walk == ListWalk(sprites, head, <<>>)
    IN  /\ walk # <<>>
        /\ sprites[walk[Len(walk)]].next \in DOMAIN sprites

\* check_for_sprite_list_cycles(true), for the lists from list on: the link
\* that closes a cycle is severed.
RECURSIVE SeverCycles(_, _, _)
SeverCycles(sprites, heads, list) ==
    IF list = NUM_SPRITE_LISTS THEN sprites
    ELSE LET walk == ListWalk(sprites, heads[list], <<>>)
         IN  SeverCycles(IF ListHasCycle(sprites, heads[list])
                         THEN [sprites EXCEPT ![walk[Len(walk)]].next = SPRITE_INDEX_NULL]
                         ELSE sprites,
                         heads, list + 1)

\* fix_disjoint_sprites from sprite index on: a null sprite that the free
\* list does not reach is linked behind the last sprite of the list, or
\* becomes its head when the list is empty.  st holds the sprites, the head
\* and the last sprite of the free list, the sprites it reaches and the
\* number of sprites linked so far, which is the value returned.
RECURSIVE DisjointLoop(_, _)
DisjointLoop(index, st) ==
    IF index = MAX_SPRITES THEN st
    ELSE IF /\ st.sprites[index].sprite_identifier = "SPRITE_IDENTIFIER_NULL"
            /\ index \notin st.reachable
    THEN DisjointLoop(index + 1,
            [sprites |-> IF st.tail = SPRITE_INDEX_NULL
                         THEN [st.sprites EXCEPT ![index].next = SPRITE_INDEX_NULL]
                         ELSE [st.sprites EXCEPT ![st.tail].next = index,
                                                 ![index].next = SPRITE_INDEX_NULL],
             head |-> IF st.tail = SPRITE_INDEX_NULL THEN index ELSE st.head,
             tail |-> index,
             reachable |-> st.reachable \cup {index},
             count |-> st.count + 1])
    ELSE DisjointLoop(index + 1, st)

FixDisjointSprites(sprites, head) ==
    LET walk == ListWalk(sprites, head, <<>>)
    IN  DisjointLoop(0, [sprites |-> sprites,
                         head |-> head,
                         tail |-> IF walk = <<>> THEN SPRITE_INDEX_NULL
                                                ELSE walk[Len(walk)],
                         reachable |-> {walk[k] : k \in 1..Len(walk)},
                         count |-> 0])

\* The sprites and the head of the free list after lines 474-476.
RepairedSpriteLists(sprites, heads) ==
    FixDisjointSprites(SeverCycles(sprites, heads, 0), heads[SPRITE_LIST_NULL])

\* Line 466-481: the fixes of the imported state.  For every ride in use
\* the entrance elements on the map decide what becomes of its locations.
PostRepair ==
    /\ pc = "PostRepair"
    /\ gTileElements' = [i \in DOMAIN gTileElements |-> StripGhostFlag(gTileElements[i])]
    /\ \E found \in [UNION {{<<index>> \o l : l \in SetLocationsOf(gRides[index])} :
                             index \in {r \in RideIndices : gRides[r].type # RIDE_TYPE_NULL}}
                        -> LocationOutcomes] :
          gRides' = [index \in RideIndices |->
                        IF gRides[index].type = RIDE_TYPE_NULL THEN gRides[index]
                        ELSE DeterminedRide(gRides[index],
                                [l \in SetLocationsOf(gRides[index]) |->
                                    found[<<index>> \o l]])]
    /\ LET repaired == RepairedSpriteLists(gSprites, gSpriteListHead)
       IN  /\ gSprites' = repaired.sprites
           /\ gSpriteListHead' = [gSpriteListHead EXCEPT ![SPRITE_LIST_NULL] = repaired.head]
    /\ pc' = "FixLandOwnership"
    /\ UNCHANGED <<fileVars, randomVars, staffVars, infoVars, hostVars, buildVars,
                   s6_tile_elements, tileLog, spawnVars,
                   s6_sprites, s6_sprite_lists_head, s6_sprite_lists_count, gSpriteListCount,
                   s6_rides, researchVars, loadVars>>

\* The tiles of line 489-492.
FestivalTiles ==
    { <<67, 94>>, <<68, 94>>, <<69, 94>>,
      <<58, 24>>, <<58, 25>>, <<58, 26>>, <<58, 27>>, <<58, 28>>, <<58, 29>>, <<58, 30>>,
      <<58, 31>>, <<58, 32>>,
      <<26, 44>>, <<26, 45>>,
      <<32, 79>>, <<32, 80>>, <<32, 81>> }

\* A plausible slip: the correction is looked up without regard to case.
LandOwnershipQuirk_IgnoreCase(filename) ==
    filename \in {"Europe - European Cultural Festival.SC6",
                  "europe - european cultural festival.sc6"}

\* String::Equals(_s6.scenario_filename, "Europe - European Cultural Festival.SC6")
LandOwnershipQuirk(filename) ==
    StringEquals(filename, "Europe - European Cultural Festival.SC6")

\* Line 483-496: FixLandOwnershipTilesWithOwnership(tiles, OWNERSHIP_OWNED).
FixLandOwnership ==
    /\ pc = "FixLandOwnership"
    /\ gLandOwnership' = IF LandOwnershipQuirk(s6_scenario_filename)
                         THEN gLandOwnership \cup FestivalTiles
                         ELSE gLandOwnership
    /\ pc' = "Imported"
    /\ UNCHANGED <<fileVars, randomVars, staffVars, infoVars,
                   entry, path, s6Path, objectsLoadable, objectsLoaded, s6_map_size,
                   initAllCalls, s6_elapsed_months, gDateMonthsElapsed, gScenarioFileName,
                   gErrorType, gErrorStringId,
                   buildVars, tileVars, spawnVars, spriteVars, rideVars, researchVars,
                   loadVars>>

\* Line 1046-1049 and 1083-1085: Import has returned and the loader returns.
LoaderReturn ==
    /\ pc = "Imported"
    /\ entry \in Loaders
    /\ pc' = "Returned"
    /\ UNCHANGED <<fileVars, randomVars, staffVars, infoVars, hostVars, buildVars, tileVars, spawnVars, spriteVars, rideVars,
                   researchVars, loadVars>>

\* The exceptions a handler for const IOException& catches.
IsIOException(kind) == kind \in {"IOException", "SawyerChunkException"}

\* A plausible slip: only the I/O errors are caught.
Caught_IOOnly(kind) == IsIOException(kind)

\* The handlers of line 1051-1065 and 1087-1101 end with one for
\* const std::exception&: every exception thrown above is caught.
Caught(kind) ==
    kind \in {"ObjectLoadException", "IOException", "SawyerChunkException",
              "std::runtime_error", "UnsupportedRCTCFlagException"}

\* The string id the matching handler sets.
CaughtStringId(loader, kind) ==
    IF kind = "ObjectLoadException"
    THEN IF loader = "load_from_sv6" THEN "STR_FILE_CONTAINS_INVALID_DATA"
                                     ELSE "STR_GAME_SAVE_FAILED"
    ELSE IF IsIOException(kind) THEN "STR_GAME_SAVE_FAILED"
    ELSE "STR_FILE_CONTAINS_INVALID_DATA"

\* Line 1051-1065 and 1087-1104: the exception reaches a handler of the
\* loader, which returns; an exception no handler catches leaves it.
Catch ==
    /\ pc = "Failed"
    /\ entry \in Loaders
    /\ IF Caught(error.kind)
       THEN /\ gErrorType' = "ERROR_TYPE_FILE_LOAD"
            /\ gErrorStringId' = CaughtStringId(entry, error.kind)
            /\ pc' = "Returned"
       ELSE /\ pc' = "Escaped"
            /\ UNCHANGED <<gErrorType, gErrorStringId>>
    /\ UNCHANGED <<fileVars, randomVars, staffVars, infoVars,
                   entry, path, s6Path, objectsLoadable, objectsLoaded, s6_map_size,
                   initAllCalls, s6_elapsed_months, gDateMonthsElapsed, gScenarioFileName,
                   gLandOwnership,
                   buildVars, tileVars, spawnVars, spriteVars, rideVars, researchVars,
                   loadVars>>

(***************************************************************************)
(* The values the variables of a part of the importer hold in the          *)
(* specifications of the other parts.                                      *)
(***************************************************************************)
TileIndices == 0..(RCT2_MAX_TILE_ELEMENTS - 1)

RawTile(type, base) ==
    [type |-> type, flags |-> 8, base_height |-> base, clearance_height |-> 6,
     pad |-> <<1, 2, 3, 4>>]

\* What the tile array holds before Import writes it.
(***************************************************************************)
(* ror_xor_ror_engine (util/Random.h), instantiated over 8-bit words.      *)
(***************************************************************************)
\* std::numeric_limits<result_type>::digits
WordBits == 8

\* The template arguments __M, __SA and __SB.
mask == 127

shift_a == 7

shift_b == 3

\* x to the power n
RECURSIVE Power(_, _)
Power(x, n) == IF n = 0 THEN 1 ELSE x * Power(x, n - 1)

\* The number of values of result_type.
Modulus == Power(2, WordBits)

\* a ^ b on the lowest bits bits
RECURSIVE BitXor(_, _, _)
BitXor(a, b, bits) ==
    IF bits = 0 THEN 0
    ELSE ((a + b) % 2) + 2 * BitXor(a \div 2, b \div 2, bits - 1)

\* ror<result_type>(x, shift): x rotated right by shift bits.
ror(x, shift) ==
    ((x \div Power(2, shift)) + (x % Power(2, shift)) * Power(2, WordBits - shift))
        % Modulus

\* seed(S0, S1)
Seeded(S0, S1) == [S0 |-> S0, S1 |-> S1]

\* The mark of a word that discard threw away: a value no word has.
Discarded == Modulus

RandomIdle ==
    /\ engineA = Seeded(0, 0)
    /\ engineB = Seeded(0, 0)
    /\ seedA = engineA
    /\ seedB = engineB
    /\ callsA = 0
    /\ callsB = 0
    /\ outputsA = <<>>
    /\ outputsB = <<>>
    /\ discardLeft = 0
    /\ discardTarget = 0

(***************************************************************************)
(* StaffSetOrderAction (actions/StaffSetOrderAction.hpp).                  *)
(***************************************************************************)
SpriteIndices == 0..(MAX_SPRITES - 1)

\* Where a sprite is on the map.
PeepPosition(index) == [x |-> 32 * (index + 1), y |-> 64, z |-> 16]

\* A mechanic without orders.
IdleMechanic(index) ==
    [type |-> "PEEP_TYPE_STAFF", staff_type |-> "STAFF_TYPE_MECHANIC", staff_orders |-> 0,
     x |-> PeepPosition(index).x, y |-> PeepPosition(index).y, z |-> PeepPosition(index).z]

\* No game action has been called.
NoAction == [fn |-> "none", spriteIndex |-> 0, orderId |-> 0]

NoResult == [Error |-> "none", ErrorMessage |-> "none"]

StaffIdle ==
    /\ peepFields = [index \in SpriteIndices |-> IdleMechanic(index)]
    /\ lastAction = NoAction
    /\ spritesRead = {}
    /\ gaResult = NoResult
    /\ invalidatedWindows = {}
    /\ staffListRefreshed = FALSE
    /\ outOfBounds = FALSE

\* _s6{}: the scenario info of an importer that has read no file.
EmptyInfo == [name |-> <<>>, details |-> <<>>]

\* The scenario info of a file: the name Park and details with an upper
\* character of the legacy encoding.
ParkInfo == [name |-> <<80, 97, 114, 107>>, details |-> <<70, 117, 110, 233>>]

\* A scenario info that has been read and is not being imported: the info
\* of the file in the raw record, an empty destination.
InfoIdle ==
    /\ s6_info = ParkInfo
    /\ file_info = s6_info
    /\ gS6Info = [name |-> <<>>, details |-> <<>>]

\* The scenario info of the park that was open before the loader was called.
StaleInfo == [name |-> <<79, 108, 100>>, details |-> <<>>]

StaleTileElement ==
    [type |-> 0, flags |-> 0, base_height |-> 14, clearance_height |-> 14,
     pad |-> ZeroPad, fields |-> NoFields]

TilesIdle ==
    /\ s6_tile_elements = [i \in TileIndices |-> RawTile(TILE_ELEMENT_TYPE_SURFACE, 4)]
    /\ gTileElements = [i \in TileIndices |-> StaleTileElement]
    /\ tileLog = <<>>

SpawnIndices == 0..(RCT12_MAX_PEEP_SPAWNS - 1)

UndefinedSpawn == [x |-> PEEP_SPAWN_UNDEFINED, y |-> 0, z |-> 0, direction |-> 0]

SpawnsIdle ==
    /\ s6_scenario_filename = ""
    /\ s6_peep_spawns = [i \in SpawnIndices |-> UndefinedSpawn]
    /\ file_peep_spawns = s6_peep_spawns
    /\ gPeepSpawns = <<>>

\* A sprite slot that holds no sprite and is linked to no other.
NullSprite ==
    [sprite_identifier |-> "SPRITE_IDENTIFIER_NULL", current_ride |-> 0, state |-> "none",
     next |-> SPRITE_INDEX_NULL]

SpritesIdle ==
    /\ s6_sprites = [i \in 0..(RCT2_MAX_SPRITES - 1) |-> NullSprite]
    /\ s6_sprite_lists_head = [i \in SpriteLists |-> 65535]
    /\ s6_sprite_lists_count = [i \in SpriteLists |-> 0]
    /\ gSprites = [i \in 0..(MAX_SPRITES - 1) |-> NullSprite]
    /\ gSpriteListHead = [i \in SpriteLists |-> 65535]
    /\ gSpriteListCount = [i \in SpriteLists |-> 0]

\* A ride slot after the reset of the world state.
NullRide(index) == RideWithoutStations(index, RIDE_TYPE_NULL, 0)

RidesIdle ==
    /\ s6_rides = [index \in RideIndices |-> RawRideWithoutStations(RIDE_TYPE_NULL, 0)]
    /\ gRides = [index \in RideIndices |-> NullRide(index)]

\* The 32-bit words of a bit array that holds count bits.
WordIndices(count) == 0..((count + 31) \div 32 - 1)

ResearchIdle ==
    /\ s6_researched_ride_types = [w \in WordIndices(RIDE_TYPE_COUNT) |-> {}]
    /\ s6_researched_ride_entries = [w \in WordIndices(MAX_RIDE_OBJECTS) |-> {}]
    /\ s6_researched_scenery_items =
          [w \in WordIndices(RCT2_MAX_RESEARCHED_SCENERY_ITEMS) |-> {}]
    /\ inventedRideTypes = {}
    /\ inventedRideEntries = {}
    /\ inventedSceneryItems = {}

Header(type, classic, packed) ==
    [type |-> type, classic_flag |-> classic, num_packed_objects |-> packed]

\* rct_s6_data _s6{}: the fields of the raw buffer before any chunk is read.
ZeroSprite ==
    [sprite_identifier |-> "SPRITE_IDENTIFIER_VEHICLE", current_ride |-> 0,
     state |-> "PEEP_STATE_FALLING", next |-> 0]

ZeroRide ==
    [type |-> 0, num_riders |-> 0,
     entrances |-> [i \in RawStationIndices |-> XY8(0, 0)],
     exits |-> [i \in RawStationIndices |-> XY8(0, 0)],
     station_heights |-> [i \in RawStationIndices |-> 0]]

ZeroPeepSpawns == [i \in SpawnIndices |-> [x |-> 0, y |-> 0, z |-> 0, direction |-> 0]]

ZeroBuffer ==
    [elapsed_months |-> 0,
     tile_elements |-> [i \in TileIndices |->
                          [type |-> 0, flags |-> 0, base_height |-> 0,
                           clearance_height |-> 0, pad |-> ZeroPad]],
     sprites |-> [i \in 0..(RCT2_MAX_SPRITES - 1) |-> ZeroSprite],
     sprite_lists_head |-> [i \in SpriteLists |-> 0],
     sprite_lists_count |-> [i \in SpriteLists |-> 0],
     researched_ride_types |-> [w \in WordIndices(RIDE_TYPE_COUNT) |-> {}],
     researched_ride_entries |-> [w \in WordIndices(MAX_RIDE_OBJECTS) |-> {}],
     researched_scenery_items |->
         [w \in WordIndices(RCT2_MAX_RESEARCHED_SCENERY_ITEMS) |-> {}],
     map_size |-> 0,
     rides |-> [index \in RideIndices |-> ZeroRide],
     scenario_filename |-> ""]

\* The same fields as _s6 holds them.
S6Buffer ==
    [elapsed_months |-> s6_elapsed_months,
     tile_elements |-> s6_tile_elements,
     sprites |-> s6_sprites,
     sprite_lists_head |-> s6_sprite_lists_head,
     sprite_lists_count |-> s6_sprite_lists_count,
     researched_ride_types |-> s6_researched_ride_types,
     researched_ride_entries |-> s6_researched_ride_entries,
     researched_scenery_items |-> s6_researched_scenery_items,
     map_size |-> s6_map_size,
     rides |-> s6_rides,
     scenario_filename |-> s6_scenario_filename]

\* No chunk has been read into _s6.
ZeroedBuffer ==
    /\ s6_elapsed_months = ZeroBuffer.elapsed_months
    /\ s6_tile_elements = ZeroBuffer.tile_elements
    /\ s6_sprites = ZeroBuffer.sprites
    /\ s6_sprite_lists_head = ZeroBuffer.sprite_lists_head
    /\ s6_sprite_lists_count = ZeroBuffer.sprite_lists_count
    /\ s6_researched_ride_types = ZeroBuffer.researched_ride_types
    /\ s6_researched_ride_entries = ZeroBuffer.researched_ride_entries
    /\ s6_researched_scenery_items = ZeroBuffer.researched_scenery_items
    /\ s6_map_size = ZeroBuffer.map_size
    /\ s6_rides = ZeroBuffer.rides
    /\ s6_scenario_filename = ZeroBuffer.scenario_filename
    /\ s6_peep_spawns = ZeroPeepSpawns

\* The file has been read: it held what _s6 holds.
FileIdle == file_data = S6Buffer

\* An entry left in the list by an earlier import.
StaleSpawn == [x |-> 1, y |-> 1, z |-> 1, direction |-> 0]

\* The park that is open when a load begins: the state Import is to
\* overwrite.
StaleWorld ==
    /\ gTileElements = [i \in TileIndices |-> StaleTileElement]
    /\ tileLog = <<>>
    /\ gPeepSpawns = <<StaleSpawn>>
    /\ gSprites = [i \in 0..(MAX_SPRITES - 1) |-> NullSprite]
    /\ gSpriteListHead = [i \in SpriteLists |-> SPRITE_INDEX_NULL]
    /\ gSpriteListCount = [i \in SpriteLists |-> 9]
    /\ gRides = [index \in RideIndices |-> RideWithoutStations(index, 5, 1)]
    /\ inventedRideTypes = {1}
    /\ inventedRideEntries = {1}
    /\ inventedSceneryItems = {1}

\* LoadScenario has returned: every chunk of the scenario layout was read.
LoadedScenario ==
    /\ isScenario = TRUE
    /\ allow_loading_with_incorrect_checksum = FALSE
    /\ stream = [checksumValid |-> TRUE, header |-> Header(S6_TYPE_SCENARIO, 0, 0),
                 chunks |-> MaxStreamChunks]
    /\ s6_header = Header(S6_TYPE_SCENARIO, 0, 0)
    /\ chunkLog = <<HeaderChunk, InfoChunk>> \o ScenarioChunks
    /\ packedExported = 0
    /\ error = NoError

\* LoadSavedGame has returned: every chunk of the saved-game layout was
\* read.
LoadedSavedGame ==
    /\ isScenario = FALSE
    /\ allow_loading_with_incorrect_checksum = FALSE
    /\ stream = [checksumValid |-> TRUE, header |-> Header(S6_TYPE_SAVEDGAME, 0, 0),
                 chunks |-> MaxStreamChunks]
    /\ s6_header = Header(S6_TYPE_SAVEDGAME, 0, 0)
    /\ chunkLog = <<HeaderChunk>> \o SavedGameChunks
    /\ packedExported = 0
    /\ error = NoError

\* A call of LoadFromStream itself, before any load or import.
DirectCall ==
    /\ entry = "LoadFromStream"
    /\ path = StringEmpty
    /\ s6Path = NullPath
    /\ objectsLoadable = TRUE
    /\ objectsLoaded = FALSE
    /\ initAllCalls = <<>>
    /\ gDateMonthsElapsed = 0
    /\ gScenarioFileName = ""
    /\ gLandOwnership = {}
    /\ gErrorType = "ERROR_TYPE_NONE"
    /\ gErrorStringId = "STR_NONE"

\* The paths Load is called with: a scenario with an upper-case extension,
\* a saved game and a file that is neither.
LoadPathSamples ==
    { [dir |-> "scenarios", name |-> "Amity Airfield.SC6", ext |-> Ext_SC6],
      [dir |-> "saves", name |-> "Bumbly Beach.sv6", ext |-> Ext_sv6],
      [dir |-> "scenarios", name |-> "Amity Airfield.txt", ext |-> Ext_txt] }

\* A call of Load on an importer that has loaded nothing.
LoadCall ==
    /\ entry = "Load"
    /\ path \in LoadPathSamples
    /\ s6Path = NullPath
    /\ objectsLoadable = TRUE
    /\ objectsLoaded = FALSE
    /\ initAllCalls = <<>>
    /\ gDateMonthsElapsed = 0
    /\ gScenarioFileName = ""
    /\ gLandOwnership = {}
    /\ gErrorType = "ERROR_TYPE_NONE"
    /\ gErrorStringId = "STR_NONE"

\* load_from_sc6 has loaded a scenario and its objects, and Import has
\* reset the world state.
ImportingScenario ==
    /\ entry = "load_from_sc6"
    /\ path = [dir |-> "scenarios", name |-> "Bumbly Beach.SC6", ext |-> Ext_SC6]
    /\ s6Path = path
    /\ objectsLoadable = TRUE
    /\ objectsLoaded = TRUE
    /\ s6_map_size = 64
    /\ initAllCalls = <<64>>
    /\ s6_elapsed_months = 3
    /\ gDateMonthsElapsed = 3
    /\ gScenarioFileName = ""
    /\ gLandOwnership = {}
    /\ gErrorType = "ERROR_TYPE_NONE"
    /\ gErrorStringId = "STR_NONE"

\* load_from_sv6 has loaded a saved game and its objects, and Import has
\* reset the world state.
ImportingSavedGame ==
    /\ entry = "load_from_sv6"
    /\ path = [dir |-> "saves", name |-> "Bumbly Beach.sv6", ext |-> Ext_sv6]
    /\ s6Path = path
    /\ objectsLoadable = TRUE
    /\ objectsLoaded = TRUE
    /\ s6_map_size = 64
    /\ initAllCalls = <<64>>
    /\ s6_elapsed_months = 3
    /\ gDateMonthsElapsed = 3
    /\ gScenarioFileName = ""
    /\ gLandOwnership = {}
    /\ gErrorType = "ERROR_TYPE_NONE"
    /\ gErrorStringId = "STR_NONE"

(***************************************************************************)
(* The specification of ImportTileElements: Import has reached line 212    *)
(* with a raw tile array drawn from RawTileSamples.                        *)
(***************************************************************************)
\* Every value of the four type bits (direction 1), three padding records
\* and a surface record with both upper bits of the type byte set.
RawTileSamples ==
    {RawTile(4 * t + 1, 4) : t \in 0..15}
        \cup {RawTile(tag + 2, PaddingBaseHeight) :
                tag \in {TILE_ELEMENT_TYPE_SURFACE, TILE_ELEMENT_TYPE_CORRUPT, 36}}
        \cup {RawTile(TILE_ELEMENT_TYPE_SURFACE + 192 + 3, 4)}

InitTiles ==
    /\ RandomIdle
    /\ StaffIdle
    /\ InfoIdle
    /\ pc = "ImportTileElements"
    /\ ndebug \in BOOLEAN
    /\ s6_tile_elements \in [TileIndices -> RawTileSamples]
    /\ gTileElements = [i \in TileIndices |-> StaleTileElement]
    /\ tileLog = <<>>
    /\ SpawnsIdle /\ SpritesIdle /\ RidesIdle /\ ResearchIdle /\ LoadedScenario
    /\ ImportingScenario
    /\ FileIdle

NextTiles == ImportTileElements

SpecTiles == InitTiles /\ [][NextTiles]_vars

TilesImported == pc = AfterTileElements

\* The records the claims call padding or corrupt.
IsPaddingOrCorrupt(src) ==
    \/ src.base_height = 255
    \/ GetType(src) \in {TILE_ELEMENT_TYPE_CORRUPT, TILE_ELEMENT_TYPE_EIGHT_CARS_CORRUPT_14,
                         TILE_ELEMENT_TYPE_EIGHT_CARS_CORRUPT_15}

ByteIdentical(dst, src) ==
    /\ dst.type = src.type
    /\ dst.flags = src.flags
    /\ dst.base_height = src.base_height
    /\ dst.clearance_height = src.clearance_height
    /\ dst.pad = src.pad
    /\ dst.fields = NoFields

\* C1: once ImportTileElements has returned, every destination element whose
\* raw record has base_height 0xFF or a Corrupt / EightCarsCorrupt14 /
\* EightCarsCorrupt15 tag is byte-identical to that raw record, and no
\* iteration of the loop passed that record to ImportTileElement.
C1_PaddingAndCorruptCopied ==
    TilesImported =>
        \A i \in TileIndices :
            IsPaddingOrCorrupt(s6_tile_elements[i]) =>
                /\ ByteIdentical(gTileElements[i], s6_tile_elements[i])
                /\ \A k \in 1..Len(tileLog) :
                      (tileLog[k].src = i \/ tileLog[k].dst = i) => ~tileLog[k].decoded

C1_Witness ==
    /\ TilesImported
    /\ \E i, j \in TileIndices :
          /\ s6_tile_elements[i].base_height = 255
          /\ GetType(s6_tile_elements[i]) = TILE_ELEMENT_TYPE_SURFACE
          /\ s6_tile_elements[j].base_height # 255
          /\ GetType(s6_tile_elements[j]) = TILE_ELEMENT_TYPE_EIGHT_CARS_CORRUPT_15
          /\ ByteIdentical(gTileElements[j], s6_tile_elements[j])

\* C2: once ImportTileElements has returned, the loop has run exactly
\* RCT2_MAX_TILE_ELEMENTS times, iteration i read raw record i and wrote
\* destination slot i, and slot i carries the tag, direction, flags and
\* heights of raw record i: nothing is skipped, duplicated or reordered.
C2_OrderAndCountPreserved ==
    TilesImported =>
        /\ Len(tileLog) = RCT2_MAX_TILE_ELEMENTS
        /\ \A i \in TileIndices :
              /\ tileLog[i + 1].src = i
              /\ tileLog[i + 1].dst = i
              /\ gTileElements[i] # StaleTileElement
              /\ TypeBits(gTileElements[i].type) = TypeBits(s6_tile_elements[i].type)
              /\ LowTwoBits(gTileElements[i].type) = LowTwoBits(s6_tile_elements[i].type)
              /\ gTileElements[i].flags = s6_tile_elements[i].flags
              /\ gTileElements[i].base_height = s6_tile_elements[i].base_height
              /\ gTileElements[i].clearance_height = s6_tile_elements[i].clearance_height

C2_Witness ==
    /\ TilesImported
    /\ s6_tile_elements[0].base_height = 255
    /\ s6_tile_elements[RCT2_MAX_TILE_ELEMENTS - 1].base_height # 255
    /\ GetType(s6_tile_elements[RCT2_MAX_TILE_ELEMENTS - 1]) = TILE_ELEMENT_TYPE_TRACK
    /\ tileLog[RCT2_MAX_TILE_ELEMENTS].decoded
    /\ gTileElements[0].base_height = 255

\* C3: every record the loop decoded whose tag is one of the eight variant
\* tags yields an element with that tag, the raw direction, flags,
\* base_height and clearance_height, and variant fields that are all read
\* through the view of that same tag.
C3_DecodedThroughOwnVariant ==
    \A k \in 1..Len(tileLog) :
        LET src == s6_tile_elements[tileLog[k].src]
            dst == gTileElements[tileLog[k].dst]
        IN  (tileLog[k].decoded /\ GetType(src) \in VariantTags) =>
                /\ TypeBits(dst.type) = GetType(src)
                /\ LowTwoBits(dst.type) = GetDirection(src)
                /\ dst.flags = src.flags
                /\ dst.base_height = src.base_height
                /\ dst.clearance_height = src.clearance_height
                /\ Len(dst.fields) > 0
                /\ \A f \in 1..Len(dst.fields) : dst.fields[f].view = ViewOfTag(GetType(src))

C3_Witness ==
    /\ TilesImported
    /\ \E i, j \in TileIndices :
          /\ GetType(s6_tile_elements[i]) = TILE_ELEMENT_TYPE_WALL
          /\ GetType(s6_tile_elements[j]) = TILE_ELEMENT_TYPE_SURFACE
          /\ s6_tile_elements[j].type >= 192
          /\ gTileElements[i].fields = WallFields
          /\ gTileElements[j].fields = SurfaceFields
          /\ gTileElements[j].type = TILE_ELEMENT_TYPE_SURFACE + 3

\* C4: a raw record with base_height # 0xFF whose tag is none of the eight
\* variant tags is never passed to ImportTileElement, so the default branch
\* of its switch (assert(false)) is never reached.
C4_UnknownTagsNeverDecoded ==
    \A k \in 1..Len(tileLog) :
        LET src == s6_tile_elements[tileLog[k].src]
        IN  (src.base_height # 255 /\ GetType(src) \notin VariantTags) =>
                ~tileLog[k].decoded /\ ~tileLog[k].default

(***************************************************************************)
(* The specification of ImportPeepSpawns: Import has reached line 240.     *)
(***************************************************************************)
SpawnSamples ==
    { [x |-> 100, y |-> 100, z |-> 5, direction |-> 1],
      [x |-> PEEP_SPAWN_UNDEFINED, y |-> 200, z |-> 7, direction |-> 2],
      [x |-> 64, y |-> PEEP_SPAWN_UNDEFINED, z |-> 255, direction |-> 3] }

\* The filenames ImportPeepSpawns has a correction for.
SpawnQuirkFilenames ==
    { "WW South America - Rio Carnival.SC6", "South America - Rio Carnival.SC6",
      "Great Wall of China Tourism Enhancement.SC6",
      "Asia - Great Wall of China Tourism Enhancement.SC6", "Amity Airfield.SC6" }

FilenameSamples ==
    SpawnQuirkFilenames
        \cup { "Europe - European Cultural Festival.SC6", "amity airfield.sc6",
               "Amity Airfield", "Bumbly Beach.SC6" }

InitSpawns ==
    /\ RandomIdle
    /\ StaffIdle
    /\ InfoIdle
    /\ pc = "ImportPeepSpawns"
    /\ ndebug = FALSE
    /\ s6_scenario_filename \in FilenameSamples
    /\ s6_peep_spawns \in [SpawnIndices -> SpawnSamples]
    /\ file_peep_spawns = s6_peep_spawns
    /\ gPeepSpawns \in {<<>>, <<StaleSpawn>>, <<StaleSpawn, StaleSpawn, StaleSpawn>>}
    /\ TilesIdle /\ SpritesIdle /\ RidesIdle /\ ResearchIdle /\ LoadedScenario
    /\ ImportingScenario
    /\ FileIdle

NextSpawns == ImportPeepSpawns

SpecSpawns == InitSpawns /\ [][NextSpawns]_vars

SpawnsImported == pc = AfterPeepSpawns

\* The raw slots that hold a spawn.
DefinedSlots == {i \in SpawnIndices : file_peep_spawns[i].x # 65535}

\* C5: after ImportPeepSpawns for a filename without a correction, the
\* list holds exactly one entry per raw slot whose x is not
\* PEEP_SPAWN_UNDEFINED, in slot order, each (x, y, z * 16, direction);
\* nothing else is in the list.
C5_SpawnsMigrated ==
    (SpawnsImported /\ s6_scenario_filename \notin SpawnQuirkFilenames) =>
        /\ Len(gPeepSpawns) = Cardinality(DefinedSlots)
        /\ \A i \in DefinedSlots :
              gPeepSpawns[Cardinality({j \in DefinedSlots : j < i}) + 1] =
                  [x |-> file_peep_spawns[i].x, y |-> file_peep_spawns[i].y,
                   z |-> file_peep_spawns[i].z * 16,
                   direction |-> file_peep_spawns[i].direction]

C5_Witness ==
    /\ SpawnsImported
    /\ s6_scenario_filename = "amity airfield.sc6"
    /\ file_peep_spawns[0].x = 65535
    /\ file_peep_spawns[1] = [x |-> 64, y |-> 65535, z |-> 255, direction |-> 3]
    /\ gPeepSpawns = << [x |-> 64, y |-> 65535, z |-> 4080, direction |-> 3] >>

(***************************************************************************)
(* The specification of the sprite list import and of what the rest of     *)
(* Import does to the lists: Import has reached line 214.  The file may    *)
(* hold any 16-bit count for a list; its links stay inside the sprite      *)
(* array.                                                                  *)
(***************************************************************************)
\* Raw sprites of one kind linked in index order; the last is linked to
\* lastNext.
LinkedSprites(identifier, lastNext) ==
    [i \in 0..(RCT2_MAX_SPRITES - 1) |->
        [sprite_identifier |-> identifier, current_ride |-> 0, state |-> "none",
         next |-> IF i = RCT2_MAX_SPRITES - 1 THEN lastNext ELSE i + 1]]

\* Free slots without links, and chains of free slots or of guests that
\* end or run into their first sprite.
RawSpriteSamples ==
    {[i \in 0..(RCT2_MAX_SPRITES - 1) |-> NullSprite]}
        \cup {LinkedSprites(identifier, lastNext) :
                identifier \in {"SPRITE_IDENTIFIER_NULL", "SPRITE_IDENTIFIER_PEEP"},
                lastNext \in {SPRITE_INDEX_NULL, 0}}

\* Every list empty, or the free list or list 1 beginning at sprite 0, or
\* the free list at the last raw sprite and list 1 at sprite 0.
RawHeadSamples ==
    {[i \in SpriteLists |-> SPRITE_INDEX_NULL],
     [i \in SpriteLists |-> IF i = SPRITE_LIST_NULL THEN 0 ELSE SPRITE_INDEX_NULL],
     [i \in SpriteLists |-> IF i = 1 THEN 0 ELSE SPRITE_INDEX_NULL],
     [i \in SpriteLists |-> IF i = SPRITE_LIST_NULL THEN RCT2_MAX_SPRITES - 1
                            ELSE IF i = 1 THEN 0 ELSE SPRITE_INDEX_NULL]}

\* No sprite, as many as the raw array holds, and the largest count 16 bits
\* hold.
RawCountSamples == {0, RCT2_MAX_SPRITES, 65535}

InitSprites ==
    /\ RandomIdle
    /\ StaffIdle
    /\ InfoIdle
    /\ pc = "ImportSprites"
    /\ ndebug = FALSE
    /\ s6_sprites \in RawSpriteSamples
    /\ s6_sprite_lists_head \in RawHeadSamples
    /\ s6_sprite_lists_count \in [SpriteLists -> RawCountSamples]
    /\ gSprites = [i \in 0..(MAX_SPRITES - 1) |-> NullSprite]
    /\ gSpriteListHead = [i \in SpriteLists |-> SPRITE_INDEX_NULL]
    /\ gSpriteListCount = [i \in SpriteLists |-> 9]
    /\ TilesIdle /\ SpawnsIdle /\ RidesIdle /\ ResearchIdle /\ LoadedScenario
    /\ ImportingScenario
    /\ FileIdle

NextSprites ==
    \/ ImportSprites
    \/ ImportPeepSpawns
    \/ ImportResearchedRideTypes
    \/ ImportResearchedRideEntries
    \/ ImportResearchedSceneryItems
    \/ ImportParkFields
    \/ ImportRides
    \/ PostRepair
    \/ FixLandOwnership

SpecSprites == InitSprites /\ [][NextSprites]_vars

SpritesImported == pc = AfterSprites

\* Import is behind the sprite lists (line 226) and before the post-repair
\* calls of line 474-476.
ListsImported ==
    pc \in {"ImportPeepSpawns", "ImportResearchedRideTypes", "ImportResearchedRideEntries",
            "ImportResearchedSceneryItems", "ImportParkFields", "ImportRides", "PostRepair"}

\* Import is behind the post-repair calls.
ListsRepaired == pc \in {"FixLandOwnership", "Imported"}

SpriteSamples ==
    [sprite_identifier : {"SPRITE_IDENTIFIER_PEEP"},
     current_ride : RideIndices \cup {255},
     state : {"PEEP_STATE_ON_RIDE", "PEEP_STATE_ENTERING_RIDE", "PEEP_STATE_QUEUING"},
     next : {SPRITE_INDEX_NULL}]
        \cup {[sprite_identifier |-> "SPRITE_IDENTIFIER_VEHICLE", current_ride |-> 0,
               state |-> "PEEP_STATE_ON_RIDE", next |-> SPRITE_INDEX_NULL]}

\* A raw ride record; the stored rider count differs from every count the
\* sprites of the model can give.
RawRideSamples ==
    {RawRideWithoutStations(RIDE_TYPE_NULL, 0),
     [RawRideWithoutStations(3, 9) EXCEPT !.entrances[0] = XY8(10, 20),
                                          !.exits[0] = XY8(30, 40),
                                          !.station_heights[0] = 7]}

InitRides ==
    /\ RandomIdle
    /\ StaffIdle
    /\ InfoIdle
    /\ pc = "ImportRides"
    /\ ndebug = FALSE
    /\ s6_sprites \in [0..(RCT2_MAX_SPRITES - 1) -> SpriteSamples]
    /\ s6_sprite_lists_head = [i \in SpriteLists |-> 65535]
    /\ s6_sprite_lists_count = [i \in SpriteLists |-> 0]
    /\ gSprites = [i \in 0..(MAX_SPRITES - 1) |->
                      IF i < RCT2_MAX_SPRITES THEN s6_sprites[i] ELSE NullSprite]
    /\ gSpriteListHead = s6_sprite_lists_head
    /\ gSpriteListCount = [i \in SpriteLists |-> 0]
    /\ s6_rides \in [RideIndices -> RawRideSamples]
    /\ gRides = [index \in RideIndices |-> NullRide(index)]
    /\ TilesIdle /\ SpawnsIdle /\ ResearchIdle /\ LoadedScenario
    /\ ImportingScenario
    /\ FileIdle

NextRides == ImportRides

SpecRides == InitRides /\ [][NextRides]_vars

RidesImported == pc = AfterRides

\* The raw sprites that are peeps on, or entering, the ride.
RidersOf(index) ==
    {i \in 0..(RCT2_MAX_SPRITES - 1) :
        /\ s6_sprites[i].sprite_identifier = "SPRITE_IDENTIFIER_PEEP"
        /\ s6_sprites[i].current_ride = index
        /\ \/ s6_sprites[i].state = "PEEP_STATE_ON_RIDE"
           \/ s6_sprites[i].state = "PEEP_STATE_ENTERING_RIDE"}

\* C7: after ImportRides, the num_riders of every ride whose raw type is
\* not RIDE_TYPE_NULL is the number of raw peeps whose current_ride is that
\* ride and whose state is ON_RIDE or ENTERING_RIDE, whatever the raw
\* ride record stores.
C7_NumRidersRecounted ==
    RidesImported =>
        \A index \in RideIndices :
            s6_rides[index].type # 255 =>
                gRides[index].num_riders = Cardinality(RidersOf(index))

C7_Witness ==
    /\ RidesImported
    /\ s6_rides[0].type # 255 /\ s6_rides[0].num_riders = 9
    /\ s6_rides[1].type # 255
    /\ s6_sprites[0].state = "PEEP_STATE_ON_RIDE"
    /\ s6_sprites[1].state = "PEEP_STATE_ENTERING_RIDE"
    /\ gRides[0].num_riders = 2
    /\ gRides[1].num_riders = 0

(***************************************************************************)
(* The specification of the three research bitmap decoders: Import has     *)
(* reached line 245 of a saved game, whose chunks fill the bitmaps.        *)
(***************************************************************************)
\* The bits set in a raw bit array of count items: none, only bit 5, the
\* last bit of the first word and the first of the second, every bit of
\* every word, the neighbours of bit 5 and the last item, the one bit
\* that follows the last item.
BitSamples(count) ==
    { {}, {5}, {31, 32}, 0..(32 * ((count + 31) \div 32) - 1), {4, 6, count - 1}, {count} }

\* The words of the bit array whose set bits are bits.
WordsOf(bits, count) ==
    [w \in WordIndices(count) |-> {b - 32 * w : b \in {x \in bits : x \div 32 = w}}]

InitResearch ==
    /\ RandomIdle
    /\ StaffIdle
    /\ s6_info = EmptyInfo
    /\ file_info = ParkInfo
    /\ gS6Info = EmptyInfo
    /\ pc = "ImportResearchedRideTypes"
    /\ ndebug = FALSE
    /\ \E bits \in BitSamples(RIDE_TYPE_COUNT) :
          s6_researched_ride_types = WordsOf(bits, RIDE_TYPE_COUNT)
    /\ \E bits \in BitSamples(MAX_RIDE_OBJECTS) :
          s6_researched_ride_entries = WordsOf(bits, MAX_RIDE_OBJECTS)
    /\ \E bits \in BitSamples(RCT2_MAX_RESEARCHED_SCENERY_ITEMS) :
          s6_researched_scenery_items = WordsOf(bits, RCT2_MAX_RESEARCHED_SCENERY_ITEMS)
    /\ \E all \in BOOLEAN :
          /\ inventedRideTypes = IF all THEN 0..(RIDE_TYPE_COUNT - 1) ELSE {}
          /\ inventedRideEntries = IF all THEN 0..(MAX_RIDE_OBJECTS - 1) ELSE {}
          /\ inventedSceneryItems =
                IF all THEN 0..(RCT2_MAX_RESEARCHED_SCENERY_ITEMS - 1) ELSE {}
    /\ TilesIdle /\ SpawnsIdle /\ SpritesIdle /\ RidesIdle /\ LoadedSavedGame
    /\ ImportingSavedGame
    /\ FileIdle

NextResearch ==
    \/ ImportResearchedRideTypes
    \/ ImportResearchedRideEntries
    \/ ImportResearchedSceneryItems

SpecResearch == InitResearch /\ [][NextResearch]_vars

ResearchImported == pc = AfterResearch

\* Item i is invented exactly if bit (i & 31) of word (i >> 5) is set.
DecodesBitmap(invented, words, count) ==
    /\ invented \subseteq 0..(count - 1)
    /\ \A i \in 0..(count - 1) : (i \in invented) <=> ((i % 32) \in words[i \div 32])

\* C8: after the three decoders have run, an item of each bitmap is
\* invented if and only if bit (i & 31) of word (i >> 5) of its raw bit
\* array is set, whatever was invented before.
C8_BitmapsDecoded ==
    ResearchImported =>
        /\ DecodesBitmap(inventedRideTypes, s6_researched_ride_types, RIDE_TYPE_COUNT)
        /\ DecodesBitmap(inventedRideEntries, s6_researched_ride_entries, MAX_RIDE_OBJECTS)
        /\ DecodesBitmap(inventedSceneryItems, s6_researched_scenery_items,
                         RCT2_MAX_RESEARCHED_SCENERY_ITEMS)

C8_Witness ==
    /\ ResearchImported
    /\ s6_researched_ride_types = WordsOf({5}, RIDE_TYPE_COUNT)
    /\ inventedRideTypes = {5}
    /\ s6_researched_ride_entries = WordsOf({31, 32}, MAX_RIDE_OBJECTS)
    /\ inventedRideEntries = {31, 32}
    /\ s6_researched_scenery_items =
          WordsOf({RCT2_MAX_RESEARCHED_SCENERY_ITEMS}, RCT2_MAX_RESEARCHED_SCENERY_ITEMS)
    /\ inventedSceneryItems = {}

\* The peep spawns of a file: both slots in use.
ParkPeepSpawns == [i \in SpawnIndices |-> [x |-> 100 + i, y |-> 100, z |-> 5, direction |-> 1]]

\* The sprites of a file: guests on ride 0 in a list of their own and one
\* free slot, the last.
ParkSprites ==
    [i \in 0..(RCT2_MAX_SPRITES - 1) |->
        IF i = RCT2_MAX_SPRITES - 1 THEN NullSprite
        ELSE [sprite_identifier |-> "SPRITE_IDENTIFIER_PEEP", current_ride |-> 0,
              state |-> "PEEP_STATE_ON_RIDE",
              next |-> IF i = RCT2_MAX_SPRITES - 2 THEN SPRITE_INDEX_NULL ELSE i + 1]]

\* The rides of a file: ride 0 with an entrance and an exit at its first
\* station, the others without stations.
ParkRides ==
    [index \in RideIndices |->
        IF index = 0
        THEN [RawRideWithoutStations(3, 9) EXCEPT !.entrances[0] = XY8(10, 20),
                                                 !.exits[0] = XY8(30, 40),
                                                 !.station_heights[0] = 5]
        ELSE RawRideWithoutStations(3, 9)]

\* What the chunks of a file hold: tiles of which the first is a ghost, the
\* sprites and rides above, and some invented items in each bitmap.
FileOf(tiles, filename, mapSize) ==
    [elapsed_months |-> 3,
     tile_elements |-> [tiles EXCEPT ![0].flags = 8 + TILE_ELEMENT_FLAG_GHOST],
     sprites |-> ParkSprites,
     sprite_lists_head |-> [i \in SpriteLists |->
                              IF i = SPRITE_LIST_NULL THEN RCT2_MAX_SPRITES - 1
                              ELSE IF i = 1 THEN 0 ELSE SPRITE_INDEX_NULL],
     sprite_lists_count |-> [i \in SpriteLists |->
                               IF i = SPRITE_LIST_NULL THEN 1
                               ELSE IF i = 1 THEN RCT2_MAX_SPRITES - 1 ELSE 0],
     researched_ride_types |-> WordsOf({5}, RIDE_TYPE_COUNT),
     researched_ride_entries |-> WordsOf({31, 32}, MAX_RIDE_OBJECTS),
     researched_scenery_items |-> WordsOf({4, 6}, RCT2_MAX_RESEARCHED_SCENERY_ITEMS),
     map_size |-> mapSize,
     rides |-> ParkRides,
     scenario_filename |-> filename]

ParkFile ==
    FileOf([i \in TileIndices |-> RawTile(4 * i + 1, 4)], "Amity Airfield.SC6", 64)

(***************************************************************************)
(* The specification of Load and LoadFromStream: a call of either on a    *)
(* stream whose checksum, header and length are drawn from bounded sets.   *)
(***************************************************************************)
StreamSamples ==
    [checksumValid : BOOLEAN,
     header : [type : {S6_TYPE_SAVEDGAME, S6_TYPE_SCENARIO, 2},
               classic_flag : {0, UnsupportedClassicFlag},
               num_packed_objects : 0..MaxPackedObjects],
     chunks : 0..MaxStreamChunks]

InitLoad ==
    /\ RandomIdle
    /\ StaffIdle
    /\ s6_info = EmptyInfo
    /\ file_info = ParkInfo
    /\ gS6Info = EmptyInfo
    /\ \/ pc = "LoadFromStream" /\ isScenario \in BOOLEAN /\ DirectCall
       \/ pc = "Load" /\ isScenario = FALSE /\ LoadCall
    /\ ndebug = FALSE
    /\ allow_loading_with_incorrect_checksum \in BOOLEAN
    /\ stream \in StreamSamples
    /\ s6_header = Header(0, 0, 0)
    /\ chunkLog = <<>>
    /\ packedExported = 0
    /\ error = NoError
    /\ ZeroedBuffer
    /\ file_data = ParkFile
    /\ file_peep_spawns = ParkPeepSpawns
    /\ StaleWorld

NextLoad ==
    \/ Load
    \/ ValidateChecksum
    \/ ReadHeader
    \/ SelectLayout
    \/ CheckClassicFlag
    \/ ExportPackedObjects
    \/ ReadNextChunk
    \/ LoadReturn
    \/ StorePath

SpecLoad == InitLoad /\ [][NextLoad]_vars

ChecksumError == [kind |-> "IOException", what |-> "Invalid checksum."]

EnforcedAndMismatched ==
    ~allow_loading_with_incorrect_checksum /\ ~stream.checksumValid

\* LoadFromStream has been called: directly, or by Load once it has accepted
\* the extension of its path (line 76, 81); Load's own throw at line 85
\* happens without a call of LoadFromStream.
LoadFromStreamCalled ==
    /\ pc # "Load"
    /\ error # [kind |-> "std::runtime_error", what |-> "Invalid RCT2 park extension."]

\* C9 as claimed: in both layouts, once LoadFromStream is called with
\* enforcement enabled and a checksum that does not match, no chunk is ever
\* read and, as soon as the checksum test at line 108 is passed, the call
\* has failed with the checksum error; with enforcement disabled the call
\* never fails with it.
C9_ChecksumEnforcedInBothLayouts ==
    LoadFromStreamCalled =>
        /\ EnforcedAndMismatched =>
              /\ chunkLog = <<>>
              /\ pc # "LoadFromStream" => (pc = "Failed" /\ error = ChecksumError)
        /\ allow_loading_with_incorrect_checksum => error # ChecksumError

\* C9 as amended: in the scenario layout, with enforcement enabled and a
\* checksum that does not match, no chunk is ever read and the call fails
\* with the checksum error; the call fails with the checksum error in no
\* other case, so never for a saved game and never with enforcement
\* disabled.
C9_ChecksumEnforcedForScenario ==
    /\ (isScenario /\ EnforcedAndMismatched) =>
          /\ chunkLog = <<>>
          /\ pc # "LoadFromStream" => (pc = "Failed" /\ error = ChecksumError)
    /\ error = ChecksumError => (isScenario /\ EnforcedAndMismatched)

C9_Witness ==
    /\ pc = "Failed"
    /\ error = ChecksumError
    /\ isScenario
    /\ EnforcedAndMismatched
    /\ chunkLog = <<>>

HeaderRead == Len(chunkLog) >= 1

\* The header carries the tag of the layout the caller selected.
TagOfSelectedLayout ==
    \/ isScenario /\ s6_header.type = S6_TYPE_SCENARIO
    \/ ~isScenario /\ s6_header.type = S6_TYPE_SAVEDGAME

\* C10 as claimed: a call that read a header whose type tag is not the tag
\* of the selected layout, or whose classic_flag is 0xF, and that did not
\* fail reading a chunk, has failed with the unsupported-format error once
\* it has ended.
C10_HeaderRejectedAsUnsupported ==
    (/\ pc \in {"Failed", "Loaded"}
     /\ HeaderRead
     /\ error.kind # "SawyerChunkException"
     /\ ~TagOfSelectedLayout \/ s6_header.classic_flag = 15) =>
        (pc = "Failed" /\ error.kind = "UnsupportedRCTCFlagException")

\* C10 as amended: a header whose type tag is not the tag of the selected
\* layout ends the call with std::runtime_error right after the header; a
\* header with the right tag and classic_flag 0xF ends it with the
\* unsupported-format error (or, for a scenario, with the error of reading
\* the scenario info chunk); the unsupported-format error is thrown in no
\* other case; in each case no packed object is exported and no later
\* stage runs.
C10_HeaderRejected ==
    /\ (HeaderRead /\ ~TagOfSelectedLayout) =>
          /\ pc \in {"SelectLayout", "Failed"}
          /\ pc = "Failed" =>
                /\ error.kind = "std::runtime_error"
                /\ chunkLog = <<HeaderChunk>>
                /\ packedExported = 0
    /\ (HeaderRead /\ TagOfSelectedLayout /\ s6_header.classic_flag = 15) =>
          /\ pc \in {"SelectLayout", "CheckClassicFlag", "Failed"}
          /\ pc = "Failed" =>
                /\ packedExported = 0
                /\ \/ /\ error.kind = "UnsupportedRCTCFlagException"
                      /\ chunkLog = IF isScenario THEN <<HeaderChunk, InfoChunk>>
                                                  ELSE <<HeaderChunk>>
                   \/ /\ isScenario
                      /\ error.kind = "SawyerChunkException"
                      /\ chunkLog = <<HeaderChunk>>
    /\ error.kind = "UnsupportedRCTCFlagException" =>
          (TagOfSelectedLayout /\ s6_header.classic_flag = 15)

C10_Witness ==
    /\ pc = "Failed"
    /\ isScenario
    /\ s6_header.type = S6_TYPE_SAVEDGAME
    /\ s6_header.classic_flag = 15
    /\ error = [kind |-> "std::runtime_error", what |-> "Park is not a scenario."]
    /\ chunkLog = <<HeaderChunk>>

(***************************************************************************)
(* The chunk sequence of a call of LoadFromStream that returned.           *)
(***************************************************************************)
\* The chunks the call read after the packed objects.
ChunksAfterPackedObjects ==
    SubSeq(chunkLog, LeadingChunks(isScenario) + 1, Len(chunkLog))

\* The declarations (destination fields) of a sequence of chunks.
Declarations(chunks) == [k \in 1..Len(chunks) |-> chunks[k].into]

\* The positions at which two chunk sequences of one length differ in size.
SizeDifferences(a, b) == {k \in 1..Len(a) : a[k].size # b[k].size}

\* C11 as claimed: a call that returned has read, after the packed objects,
\* the declarations the other layout reads there, as many chunks as the
\* other layout, exactly two of them with another size; the scenario info
\* chunk is read by the scenario layout only.
C11_LayoutsDifferInTwoSizes ==
    pc = "Loaded" =>
        LET mine == ChunksAfterPackedObjects
            other == LayoutChunks(~isScenario)
        IN  /\ Len(mine) = Len(other)
            /\ Declarations(mine) = Declarations(other)
            /\ Cardinality(SizeDifferences(mine, other)) = 2
            /\ (isScenario <=> \E k \in 1..Len(chunkLog) : chunkLog[k] = InfoChunk)

\* C11 as amended: a call that returned has read the header first, then
\* the scenario info chunk in the scenario layout only, and after the packed
\* objects four chunks in the saved-game layout and eleven in the scenario
\* layout; the first four have the same declarations in both layouts and
\* the same sizes except the fourth (2560076 in a scenario, 3048816 in a
\* saved game); the seven further chunks are read by the scenario layout
\* only.
C11_LayoutsShareFourChunks ==
    pc = "Loaded" =>
        LET mine == ChunksAfterPackedObjects
            other == LayoutChunks(~isScenario)
        IN  /\ chunkLog[1] = HeaderChunk
            /\ (isScenario <=> \E k \in 1..Len(chunkLog) : chunkLog[k] = InfoChunk)
            /\ isScenario => chunkLog[2] = InfoChunk
            /\ Len(mine) = IF isScenario THEN 11 ELSE 4
            /\ Declarations(SubSeq(mine, 1, 4)) =
                  << "_s6.objects", "_s6.elapsed_months", "_s6.tile_elements",
                     "_s6.next_free_tile_element_pointer_index" >>
            /\ Declarations(SubSeq(mine, 1, 4)) = Declarations(SubSeq(other, 1, 4))
            /\ SizeDifferences(SubSeq(mine, 1, 4), SubSeq(other, 1, 4)) = {4}
            /\ mine[4].size = IF isScenario THEN "2560076" ELSE "3048816"

C11_Witness ==
    /\ pc = "Loaded"
    /\ ~isScenario
    /\ Len(chunkLog) = 5
    /\ chunkLog[5] = Chunk("_s6.next_free_tile_element_pointer_index", "3048816")

(***************************************************************************)
(* The specification of load_from_sv6 and load_from_sc6: the loader is     *)
(* called on a file whose stream, raw tile array and scenario filename are *)
(* drawn from bounded sets.                                                *)
(***************************************************************************)
HostStreamSamples ==
    [checksumValid : BOOLEAN,
     header : [type : {S6_TYPE_SAVEDGAME, S6_TYPE_SCENARIO},
               classic_flag : {0, UnsupportedClassicFlag},
               num_packed_objects : 0..MaxPackedObjects],
     chunks : {1, 4, MaxStreamChunks - 1, MaxStreamChunks}]

PathSamples ==
    { [dir |-> "scenarios", name |-> "Amity Airfield.SC6", ext |-> Ext_SC6],
      [dir |-> "saves", name |-> "Bumbly Beach.SC6", ext |-> Ext_SC6] }

\* The stored scenario filenames: the five that have a peep-spawn
\* correction, the one that has the land-ownership correction, that one in
\* lower case, and one without a correction.
HostFilenameSamples ==
    SpawnQuirkFilenames
        \cup { "Europe - European Cultural Festival.SC6",
               "europe - european cultural festival.sc6", "Bumbly Beach.SC6" }

\* The stored filename and the peep spawns of a file: every filename with
\* both slots in use, and files whose records hold already what the
\* correction of their filename assigns or whose second slot is unused.
HostParkSamples ==
    {[filename |-> f, peep_spawns |-> ParkPeepSpawns] : f \in HostFilenameSamples}
        \cup {[filename |-> "Amity Airfield.SC6",
               peep_spawns |-> [ParkPeepSpawns EXCEPT ![0].y = 1296]],
              [filename |-> "Great Wall of China Tourism Enhancement.SC6",
               peep_spawns |-> [ParkPeepSpawns EXCEPT ![1].x = PEEP_SPAWN_UNDEFINED]],
              [filename |-> "South America - Rio Carnival.SC6",
               peep_spawns |->
                   [ParkPeepSpawns EXCEPT
                       ![0] = [x |-> 2160, y |-> 3167, z |-> 6, direction |-> 1],
                       ![1].x = PEEP_SPAWN_UNDEFINED]],
              [filename |-> "Bumbly Beach.SC6",
               peep_spawns |-> [ParkPeepSpawns EXCEPT ![1].x = PEEP_SPAWN_UNDEFINED]]}

\* A tile array of variant records only, and one whose last record has a
\* tag of no variant.
HostTileSamples ==
    { [i \in TileIndices |-> RawTile(4 * i + 1, 4)],
      [i \in TileIndices |-> IF i = RCT2_MAX_TILE_ELEMENTS - 1
                             THEN RawTile(37, 4) ELSE RawTile(4 * i + 1, 4)] }

\* The importer is new, so _s6 is zeroed and _s6Path is null; the file and
\* the open park are as drawn.
InitHost ==
    /\ RandomIdle
    /\ StaffIdle
    /\ s6_info = EmptyInfo
    /\ file_info = ParkInfo
    /\ gS6Info = StaleInfo
    /\ pc = "load_from_s6"
    /\ ndebug \in BOOLEAN
    /\ entry \in Loaders
    /\ path \in PathSamples
    /\ s6Path = NullPath
    /\ objectsLoadable \in BOOLEAN
    /\ objectsLoaded = FALSE
    /\ initAllCalls = <<>>
    /\ gDateMonthsElapsed = 7
    /\ gScenarioFileName = ""
    /\ gLandOwnership = {}
    /\ gErrorType = "ERROR_TYPE_NONE"
    /\ gErrorStringId = "STR_NONE"
    /\ isScenario = FALSE
    /\ allow_loading_with_incorrect_checksum \in BOOLEAN
    /\ stream \in HostStreamSamples
    /\ s6_header = Header(0, 0, 0)
    /\ chunkLog = <<>>
    /\ packedExported = 0
    /\ error = NoError
    /\ ZeroedBuffer
    /\ \E park \in HostParkSamples, tiles \in HostTileSamples, mapSize \in {64, 256} :
          /\ file_data = FileOf(tiles, park.filename, mapSize)
          /\ file_peep_spawns = park.peep_spawns
    /\ StaleWorld

NextHost ==
    \/ CallLoad
    \/ ValidateChecksum
    \/ ReadHeader
    \/ SelectLayout
    \/ CheckClassicFlag
    \/ ExportPackedObjects
    \/ ReadNextChunk
    \/ LoadReturn
    \/ StorePath
    \/ LoadObjects
    \/ Initialise
    \/ ImportScenarioInfo
    \/ ImportTileElements
    \/ ImportSprites
    \/ ImportPeepSpawns
    \/ ImportResearchedRideTypes
    \/ ImportResearchedRideEntries
    \/ ImportResearchedSceneryItems
    \/ ImportParkFields
    \/ ImportRides
    \/ PostRepair
    \/ FixLandOwnership
    \/ LoaderReturn
    \/ Catch

SpecHost == InitHost /\ [][NextHost]_vars

\* The stages in the order of the code: LoadFromStream line 108-169, the
\* loader line 1043-1045, Import line 180-496.
CodeStages ==
    << "load_from_s6", "LoadFromStream", "ReadHeader", "SelectLayout", "CheckClassicFlag",
       "ExportPackedObjects", "ReadChunks", "Loaded", "LoadObjects", "Initialise",
       "ImportScenarioInfo", "ImportTileElements", "ImportSprites", "ImportPeepSpawns",
       "ImportResearchedRideTypes", "ImportResearchedRideEntries",
       "ImportResearchedSceneryItems", "ImportParkFields", "ImportRides", "PostRepair",
       "FixLandOwnership", "Imported" >>

\* How the call has ended: by return, by an exception on its way to the
\* handler, by an exception no handler caught, by a failed assertion.
EndStages == {"Returned", "Failed", "Escaped", "Aborted"}

StageIndex(stage) == CHOOSE k \in 1..Len(CodeStages) : CodeStages[k] = stage

\* The chunk that holds the peep spawns has been read into _s6.
PeepSpawnsRead ==
    \E k \in 1..Len(chunkLog) :
        chunkLog[k].into = "_s6.next_free_tile_element_pointer_index"

\* The raw peep spawn records as the load has left them.
PeepSpawnsAsRead == IF PeepSpawnsRead THEN file_peep_spawns ELSE ZeroPeepSpawns

\* A peep-spawn correction has changed a raw record.
PeepSpawnQuirkApplied == s6_peep_spawns # PeepSpawnsAsRead

\* The three research bitmaps have been decoded into the reset world state.
BitmapsDecoded ==
    /\ initAllCalls # <<>>
    /\ DecodesBitmap(inventedRideTypes, s6_researched_ride_types, RIDE_TYPE_COUNT)
    /\ DecodesBitmap(inventedRideEntries, s6_researched_ride_entries, MAX_RIDE_OBJECTS)
    /\ DecodesBitmap(inventedSceneryItems, s6_researched_scenery_items,
                     RCT2_MAX_RESEARCHED_SCENERY_ITEMS)

NoBitmapDecoded ==
    /\ inventedRideTypes = {}
    /\ inventedRideEntries = {}
    /\ inventedSceneryItems = {}

\* The post-repair pass has begun: Import is behind line 466, or it has
\* returned and the loader with it.
PostRepairBegun ==
    \/ pc \in {"FixLandOwnership", "Imported"}
    \/ pc = "Returned" /\ error = NoError /\ initAllCalls # <<>>

LandOwnershipQuirkApplied == gLandOwnership = FestivalTiles

\* C12 as claimed, for the quirk fixups of a load that succeeds and is
\* followed by Import: a peep-spawn correction is applied only once the
\* research bitmaps are decoded, and when the post-repair pass has begun
\* every correction that the filename selects, the land-ownership
\* correction included, has been applied.
C12_QuirksAfterBitmapsBeforeRepair ==
    (error = NoError /\ initAllCalls # <<>>) =>
        /\ PeepSpawnQuirkApplied => BitmapsDecoded
        /\ (PostRepairBegun /\ LandOwnershipQuirk(s6_scenario_filename)) =>
              LandOwnershipQuirkApplied

\* One step of the stage order of the code: the next stage of CodeStages,
\* one more chunk, the end of the call by an exception or a failed
\* assertion, or the return of the loader.
StageStep ==
    \/ /\ pc \in {CodeStages[k] : k \in 1..(Len(CodeStages) - 1)}
       /\ pc' = CodeStages[StageIndex(pc) + 1]
    \/ pc = "ReadChunks" /\ pc' = "ReadChunks" /\ Len(chunkLog') = Len(chunkLog) + 1
    \/ /\ pc \in {"LoadFromStream", "ReadHeader", "SelectLayout", "CheckClassicFlag",
                  "ReadChunks", "LoadObjects"}
       /\ pc' = "Failed"
    \/ pc = "ImportTileElements" /\ pc' = "Aborted"
    \/ pc \in {"Failed", "Imported"} /\ pc' = "Returned"

\* C12 as amended: the stages run in the order checksum validation, header
\* read, layout selection, classic-flag check, packed objects, remaining
\* chunks, object loading, world reset, scenario info and date, tile
\* decoding, sprites, peep spawns with their corrections, research bitmaps,
\* park fields, rides, post-repair pass, land-ownership correction.  The
\* peep-spawn corrections are applied after tile decoding and before any
\* bitmap is decoded; the land-ownership correction is applied after the
\* post-repair pass.
C12_StagesInCodeOrder ==
    /\ [][StageStep]_vars
    /\ [](PeepSpawnQuirkApplied =>
            /\ pc \in {CodeStages[k] : k \in (StageIndex("ImportPeepSpawns") + 1)..Len(CodeStages)}
                  \cup {"Returned"}
            /\ tileLog # <<>>)
    /\ [](pc = "ImportResearchedRideTypes" =>
            /\ NoBitmapDecoded
            /\ s6_scenario_filename = "Amity Airfield.SC6" =>
                  (s6_peep_spawns[0].y = 1296 /\ gPeepSpawns[1].y = 1296))
    /\ [](gLandOwnership # {} => pc \in {"Imported", "Returned"})
    /\ [](pc = "FixLandOwnership" => BitmapsDecoded)

C12_Witness ==
    /\ pc = "ImportResearchedRideTypes"
    /\ s6_scenario_filename = "Amity Airfield.SC6"
    /\ PeepSpawnQuirkApplied
    /\ NoBitmapDecoded

\* How far the call has come: the position of the stage in CodeStages,
\* then the exception on its way to the handler, then the end of the call.
StageRank(stage) ==
    IF stage = "Failed" THEN Len(CodeStages) + 1
    ELSE IF stage \in EndStages THEN Len(CodeStages) + 2
    ELSE StageIndex(stage)

\* C13: the stage only moves forward (the chunk reads one chunk at a time),
\* so no stage runs twice and nothing is retried; a stage that fails leaves
\* the exception, after which only the handler of the loader runs: no
\* chunk is read, no packed object exported, no object loaded and nothing
\* migrated; nothing runs after the loader has returned or the call was
\* aborted.
C13_StagesOnlyForward ==
    /\ [][/\ pc \notin {"Returned", "Escaped", "Aborted"}
          /\ \/ StageRank(pc') > StageRank(pc)
             \/ pc = "ReadChunks" /\ pc' = "ReadChunks" /\ Len(chunkLog') = Len(chunkLog) + 1
          /\ pc' = "Failed" => error' # NoError
          /\ pc = "Failed" =>
                /\ pc' \in {"Returned", "Escaped"}
                /\ UNCHANGED <<chunkLog, packedExported, s6_header, s6Path, objectsLoaded,
                               initAllCalls, error, tileVars, spawnVars, spriteVars,
                               rideVars, researchVars, gDateMonthsElapsed,
                               gScenarioFileName, gLandOwnership>>]_vars
    /\ [](error # NoError =>
            /\ pc \in {"Failed", "Returned", "Escaped"}
            /\ initAllCalls = <<>>
            /\ tileLog = <<>>
            /\ ~objectsLoaded)

C13_Witness ==
    /\ pc = "Returned"
    /\ error.kind = "SawyerChunkException"
    /\ Len(chunkLog) = 4
    /\ initAllCalls = <<>>
    /\ tileLog = <<>>

\* The list the peep spawn records give when they are migrated: one entry
\* (x, y, z * 16, direction) per record whose x is not PEEP_SPAWN_UNDEFINED,
\* in slot order.
MigratedRecords(records) ==
    LET defined == {i \in SpawnIndices : records[i].x # PEEP_SPAWN_UNDEFINED}
        slot(k) == CHOOSE i \in defined : Cardinality({j \in defined : j < i}) = k - 1
    IN  [k \in 1..Cardinality(defined) |->
            [x |-> records[slot(k)].x, y |-> records[slot(k)].y,
             z |-> records[slot(k)].z * 16, direction |-> records[slot(k)].direction]]

\* The filenames a correction is registered for.
QuirkFilenames == SpawnQuirkFilenames \cup {"Europe - European Cultural Festival.SC6"}

\* Import has reset the world state and run to its end.
ImportReturned == pc \in {"Imported", "Returned"} /\ initAllCalls # <<>>

\* C14: when _s6.scenario_filename is none of the registered filenames,
\* letter case included, Import changes no raw peep spawn record, makes no
\* land-ownership change and raises no error, and the peep spawns it
\* leaves are the raw records of the file, migrated.
C14_NoMatchNoCorrection ==
    (initAllCalls # <<>> /\ s6_scenario_filename \notin QuirkFilenames) =>
        /\ s6_peep_spawns = file_peep_spawns
        /\ gLandOwnership = {}
        /\ error = NoError
        /\ pc \notin {"Failed", "Escaped"}
        /\ gErrorType = "ERROR_TYPE_NONE"
        /\ ImportReturned => gPeepSpawns = MigratedRecords(file_peep_spawns)

C14_Witness ==
    /\ pc = "Returned"
    /\ initAllCalls # <<>>
    /\ s6_scenario_filename = "europe - european cultural festival.sc6"
    /\ gLandOwnership = {}
    /\ Len(gPeepSpawns) = RCT12_MAX_PEEP_SPAWNS

\* The raw records after the assignments of line 812-829 for a filename:
\* record 0 replaced and record 1 undefined for the Rio Carnival, record 1
\* undefined for the Great Wall, y of record 0 set for Amity Airfield.
RecordsAssigned(filename, records) ==
    IF filename \in {"WW South America - Rio Carnival.SC6",
                     "South America - Rio Carnival.SC6"}
    THEN [i \in SpawnIndices |->
            IF i = 0 THEN [x |-> 2160, y |-> 3167, z |-> 6, direction |-> 1]
            ELSE IF i = 1 THEN [x |-> PEEP_SPAWN_UNDEFINED, y |-> records[i].y,
                                z |-> records[i].z, direction |-> records[i].direction]
            ELSE records[i]]
    ELSE IF filename \in {"Great Wall of China Tourism Enhancement.SC6",
                          "Asia - Great Wall of China Tourism Enhancement.SC6"}
    THEN [i \in SpawnIndices |->
            IF i = 1 THEN [x |-> PEEP_SPAWN_UNDEFINED, y |-> records[i].y,
                           z |-> records[i].z, direction |-> records[i].direction]
            ELSE records[i]]
    ELSE IF filename = "Amity Airfield.SC6"
    THEN [i \in SpawnIndices |->
            IF i = 0 THEN [x |-> records[i].x, y |-> 1296, z |-> records[i].z,
                           direction |-> records[i].direction]
            ELSE records[i]]
    ELSE records

\* The land ownership the correction of a filename gives.
OwnershipAssigned(filename) ==
    IF filename = "Europe - European Cultural Festival.SC6" THEN FestivalTiles ELSE {}

\* C15 as claimed: the raw peep spawn records are never changed, and once
\* Import has returned the destination state is the decoded state with the
\* corrections of the file name of the path given to the loader.
C15_QuirksByPathOnDecodedState ==
    /\ s6_peep_spawns = PeepSpawnsAsRead
    /\ ImportReturned =>
          /\ gPeepSpawns =
                MigratedRecords(RecordsAssigned(GetFileName(path), file_peep_spawns))
          /\ gLandOwnership = OwnershipAssigned(GetFileName(path))

\* C15 as amended: the corrections are selected by _s6.scenario_filename,
\* whatever the path; a peep-spawn correction assigns to the raw records,
\* in ImportPeepSpawns, before they are migrated, so the raw records
\* change unless they held the assigned values already, and the
\* land-ownership correction changes the destination state; with a
\* filename that has no peep-spawn correction the raw records stay as
\* read.  The path gives gScenarioFileName only, and for a scenario only.
C15_QuirksByStoredFilename ==
    /\ PeepSpawnQuirkApplied =>
          /\ s6_scenario_filename \in SpawnQuirkFilenames
          /\ StageRank(pc) > StageRank("ImportPeepSpawns")
    /\ s6_scenario_filename \notin SpawnQuirkFilenames => s6_peep_spawns = PeepSpawnsAsRead
    /\ ImportReturned =>
          /\ s6_peep_spawns = RecordsAssigned(s6_scenario_filename, file_peep_spawns)
          /\ PeepSpawnQuirkApplied <=>
                file_peep_spawns # RecordsAssigned(s6_scenario_filename, file_peep_spawns)
          /\ gPeepSpawns = MigratedRecords(s6_peep_spawns)
          /\ gLandOwnership = OwnershipAssigned(s6_scenario_filename)
          /\ gScenarioFileName = IF s6_header.type = S6_TYPE_SCENARIO
                                 THEN path.name ELSE s6_scenario_filename

C15_Witness ==
    /\ pc = "Returned"
    /\ initAllCalls # <<>>
    /\ s6_scenario_filename = "Amity Airfield.SC6"
    /\ path.name = "Bumbly Beach.SC6"
    /\ PeepSpawnQuirkApplied
    /\ gPeepSpawns[1].y = 1296

\* The load has returned: the loader is about to load the objects, or a
\* later stage has been reached without an exception.
LoadHasReturned ==
    /\ StageRank(pc) >= StageRank("Loaded")
    /\ pc # "Failed"
    /\ error = NoError

TileChunkRead == \E k \in 1..Len(chunkLog) : chunkLog[k].into = "_s6.tile_elements"

\* C16 as claimed: until Import is called, the load has read from the stream
\* the header, the scenario info and the object list only.
C16_LoadReadsHeaderAndObjectsOnly ==
    initAllCalls = <<>> =>
        \A k \in 1..Len(chunkLog) :
            chunkLog[k].into \in {"_s6.header", "_s6.info", "_s6.objects"}

\* C16 as amended: a load that returns has read every chunk of its layout,
\* the tile element array included, before Import is called (5 chunks of a
\* saved game, 13 of a scenario), and Import reads no chunk.
C16_LoadReadsEveryChunk ==
    /\ [](LoadHasReturned =>
            /\ TileChunkRead
            /\ Len(chunkLog) = IF isScenario THEN 13 ELSE 5
            /\ chunkLog[Len(chunkLog)].into =
                  IF isScenario THEN "_s6.completed_company_value"
                                ELSE "_s6.next_free_tile_element_pointer_index")
    /\ [][StageRank(pc) >= StageRank("Loaded") => UNCHANGED <<chunkLog, packedExported>>]_vars

C16_Witness ==
    /\ pc = "LoadObjects"
    /\ initAllCalls = <<>>
    /\ TileChunkRead
    /\ gTileElements = [i \in TileIndices |-> StaleTileElement]

\* The destination world state of the model.
worldVars ==
    <<gTileElements, tileLog, gPeepSpawns, gSprites, gSpriteListHead, gSpriteListCount,
      gRides, inventedRideTypes, inventedRideEntries, inventedSceneryItems,
      gDateMonthsElapsed, gScenarioFileName, gLandOwnership, initAllCalls, gS6Info>>

\* The world state is as it was before the loader was called.
WorldUntouched ==
    /\ gTileElements = [i \in TileIndices |-> StaleTileElement]
    /\ tileLog = <<>>
    /\ gPeepSpawns = <<StaleSpawn>>
    /\ gSprites = [i \in 0..(MAX_SPRITES - 1) |-> NullSprite]
    /\ gSpriteListCount = [i \in SpriteLists |-> 9]
    /\ gRides = [index \in RideIndices |-> RideWithoutStations(index, 5, 1)]
    /\ inventedRideTypes = {1}
    /\ inventedRideEntries = {1}
    /\ inventedSceneryItems = {1}
    /\ gDateMonthsElapsed = 7
    /\ gScenarioFileName = ""
    /\ gLandOwnership = {}
    /\ initAllCalls = <<>>
    /\ gS6Info = StaleInfo

\* A stage of LoadSavedGame / LoadScenario / LoadFromStream is about to run.
InLoad == StageRank(pc) <= StageRank("Loaded")

\* C17 as claimed: a step of the load changes nothing but the raw buffer
\* (the header and the chunks read into it) and the stored path.
C17_LoadChangesBufferAndPathOnly ==
    [][InLoad => UNCHANGED <<worldVars, packedExported, objectsLoaded, gErrorType,
                             gErrorStringId>>]_vars

\* C17 as amended: a step of the load writes no destination world state; it
\* changes the raw buffer and the stored path and, where the header
\* announces packed objects, the object repository they are exported to.
\* Every write of the world state happens in Import: until Import has reset
\* it, the world state is as it was before the call.
C17_LoadWritesNoWorldState ==
    /\ [][InLoad => UNCHANGED <<worldVars, objectsLoaded, gErrorType, gErrorStringId>>]_vars
    /\ [][packedExported' # packedExported =>
            (pc = "ExportPackedObjects" /\ packedExported' = s6_header.num_packed_objects)]_vars
    /\ [](initAllCalls = <<>> => WorldUntouched)

C17_Witness ==
    /\ pc = "LoadObjects"
    /\ packedExported = 1
    /\ s6Path = path
    /\ TileChunkRead
    /\ WorldUntouched

\* Import has been invoked.
ImportInvoked == initAllCalls # <<>> \/ pc = "Initialise"

\* C18: in the loaders, Import is invoked only when the load has returned
\* (every chunk read, the path stored, no exception) and LoadObjects has
\* returned; when either has raised, Import is never invoked and the world
\* state stays as it was.
C18_ImportAfterLoadAndObjects ==
    /\ ImportInvoked =>
          /\ objectsLoaded
          /\ objectsLoadable
          /\ s6Path = path
          /\ TileChunkRead
          /\ Len(chunkLog) = IF isScenario THEN 13 ELSE 5
          /\ error = NoError
    /\ error # NoError => (~ImportInvoked /\ WorldUntouched)

C18_Witness ==
    /\ pc = "Returned"
    /\ error.kind = "ObjectLoadException"
    /\ ~ImportInvoked
    /\ TileChunkRead
    /\ WorldUntouched

\* C19: no exception leaves a loader.  When the loader has returned after
\* the load, LoadObjects or Import raised, gErrorType is
\* ERROR_TYPE_FILE_LOAD and gErrorStringId is the string id of the handler;
\* when nothing was raised, and as long as the loader runs, both are as
\* they were before the call.
C19_LoaderCatchesEveryError ==
    /\ pc # "Escaped"
    /\ (pc = "Returned" /\ error # NoError) =>
          /\ gErrorType = "ERROR_TYPE_FILE_LOAD"
          /\ gErrorStringId \in {"STR_GAME_SAVE_FAILED", "STR_FILE_CONTAINS_INVALID_DATA"}
          /\ error.kind = "IOException" => gErrorStringId = "STR_GAME_SAVE_FAILED"
          /\ error.kind = "std::runtime_error" =>
                gErrorStringId = "STR_FILE_CONTAINS_INVALID_DATA"
          /\ error.kind = "ObjectLoadException" =>
                gErrorStringId = IF entry = "load_from_sv6"
                                 THEN "STR_FILE_CONTAINS_INVALID_DATA"
                                 ELSE "STR_GAME_SAVE_FAILED"
    /\ (pc # "Returned" \/ error = NoError) =>
          (gErrorType = "ERROR_TYPE_NONE" /\ gErrorStringId = "STR_NONE")

C19_Witness ==
    /\ pc = "Returned"
    /\ entry = "load_from_sv6"
    /\ error = [kind |-> "std::runtime_error", what |-> "Park is not a saved game."]
    /\ gErrorType = "ERROR_TYPE_FILE_LOAD"
    /\ gErrorStringId = "STR_FILE_CONTAINS_INVALID_DATA"

\* Import has begun and the reset of the world state has completed.
ResetCompleted ==
    \/ /\ StageRank(pc) > StageRank("Initialise")
       /\ pc \notin {"Failed", "Returned", "Escaped"}
    \/ pc = "Returned" /\ error = NoError

\* C20: Import calls InitAll once, with _s6.map_size, before anything else:
\* until then the world state is as it was, and right after the reset
\* nothing has been imported yet.
C20_ResetOnceAndFirst ==
    /\ Len(initAllCalls) <= 1
    /\ ResetCompleted <=> initAllCalls = <<s6_map_size>>
    /\ ~ResetCompleted => WorldUntouched
    /\ pc = "ImportScenarioInfo" =>
          /\ tileLog = <<>>
          /\ gTileElements = [i \in TileIndices |-> StaleTileElement]
          /\ gPeepSpawns = <<>>
          /\ gDateMonthsElapsed = 0
          /\ gSprites = [i \in 0..(MAX_SPRITES - 1) |-> NullSprite]
          /\ NoBitmapDecoded
          /\ gLandOwnership = {}

C20_Witness ==
    /\ pc = "ImportScenarioInfo"
    /\ s6_map_size = 256
    /\ initAllCalls = <<256>>
    /\ tileLog = <<>>
    /\ gPeepSpawns = <<>>

(***************************************************************************)
(* The specification of the scenario name and details: Import has reached  *)
(* line 183 with a raw scenario info whose two strings are drawn from      *)
(* InfoStrings.                                                            *)
(***************************************************************************)
\* The longest raw string of the model.
MaxInfoLen == 2

\* A letter, an upper character of the legacy encoding and a colour code.
InfoBytes == {65, 233, FORMAT_COLOUR_CODE_START}

\* A string of n bytes, all of them byte.
Repeated(byte, n) == [k \in 1..n |-> byte]

\* Every string of at most MaxInfoLen bytes, and strings of one byte that
\* are as long as a raw buffer of the given size holds them, or half as
\* long, or one byte shorter than that: the conversion of an upper
\* character takes two bytes, so the longer ones outgrow a destination
\* buffer of the same size.
InfoStrings(size) ==
    UNION {[1..len -> InfoBytes] : len \in 0..MaxInfoLen}
        \cup {Repeated(byte, n) :
                byte \in InfoBytes,
                n \in {size \div 2 - 1, size \div 2, size - 1}}

InitInfo ==
    /\ RandomIdle
    /\ StaffIdle
    /\ pc = "ImportScenarioInfo"
    /\ ndebug = FALSE
    /\ s6_info \in [name : InfoStrings(InfoNameSize), details : InfoStrings(InfoDetailsSize)]
    /\ file_info = s6_info
    /\ gS6Info = [name |-> <<>>, details |-> <<>>]
    /\ TilesIdle /\ SpawnsIdle /\ SpritesIdle /\ RidesIdle /\ ResearchIdle
    /\ LoadedScenario
    /\ ImportingScenario
    /\ FileIdle

NextInfo == ImportScenarioInfo

SpecInfo == InitInfo /\ [][NextInfo]_vars

InfoImported == pc = "ImportTileElements"

\* What the import makes of one raw string that is judged by itself.
JudgedAlone(string) ==
    IF ContainsColourCode(string) THEN string ELSE rct2_to_utf8(string)

\* C21 as stated: each of the two strings is copied as it is when it
\* contains a colour code itself and converted when it does not, whatever
\* the other string holds.
C21_EachStringJudgedAlone ==
    InfoImported =>
        /\ gS6Info.name = JudgedAlone(s6_info.name)
        /\ gS6Info.details = JudgedAlone(s6_info.details)

\* A string stored in a buffer with room for so many bytes besides the
\* terminator: the whole string when it fits, a leading part of it of no
\* more than room bytes when it does not.
StoredIn(stored, string, room) ==
    IF Len(string) <= room
    THEN stored = string
    ELSE /\ Len(stored) <= room
         /\ stored = SubSeq(string, 1, Len(stored))

\* C21, amended: both strings are copied as they are when the name or the
\* details contain a colour code, and both are converted from the legacy
\* encoding when neither does; either way a string that does not fit in
\* the destination buffer besides the terminator, 63 bytes of the name
\* and 255 of the details, is stored as a leading part that does.
C21_StringsJudgedTogether ==
    InfoImported =>
        IF ContainsColourCode(s6_info.name) \/ ContainsColourCode(s6_info.details)
        THEN /\ StoredIn(gS6Info.name, s6_info.name, InfoNameSize - 1)
             /\ StoredIn(gS6Info.details, s6_info.details, InfoDetailsSize - 1)
        ELSE /\ StoredIn(gS6Info.name, rct2_to_utf8(s6_info.name), InfoNameSize - 1)
             /\ StoredIn(gS6Info.details, rct2_to_utf8(s6_info.details), InfoDetailsSize - 1)

\* A name of 32 upper characters and no colour code next to details with
\* a colour code: the name is imported as it is, 32 bytes; converted it
\* would have taken 64 bytes and been cut.
C21_Witness ==
    /\ InfoImported
    /\ s6_info.name = Repeated(233, 32)
    /\ s6_info.details = <<FORMAT_COLOUR_CODE_START, 65>>
    /\ gS6Info.name = s6_info.name
    /\ gS6Info.details = s6_info.details
    /\ Len(rct2_to_utf8(s6_info.name)) = 64

(***************************************************************************)
(* The specification of the ride stations: Import has reached line 394     *)
(* with raw rides whose entrance and exit records are drawn from           *)
(* StationSamples.                                                         *)
(***************************************************************************)
\* The entrance and the exit record of one station: none, one of the two,
\* or both at different tiles.
StationSamples ==
    {[entrance |-> RCT_XY8_UNDEFINED, exit |-> RCT_XY8_UNDEFINED],
     [entrance |-> XY8(10, 20), exit |-> RCT_XY8_UNDEFINED],
     [entrance |-> RCT_XY8_UNDEFINED, exit |-> XY8(30, 40)],
     [entrance |-> XY8(10, 20), exit |-> XY8(30, 40)],
     [entrance |-> XY8(30, 40), exit |-> XY8(10, 20)],
     [entrance |-> XY8(255, 20), exit |-> XY8(30, 255)]}

\* A raw ride of type 3 for a choice of station records and a height.
RawRideOfStations(stations, height) ==
    [type |-> 3, num_riders |-> 0,
     entrances |-> [i \in RawStationIndices |-> stations[i].entrance],
     exits |-> [i \in RawStationIndices |-> stations[i].exit],
     station_heights |-> [i \in RawStationIndices |-> height + i]]

StationRideSamples ==
    {RawRideOfStations(stations, height) :
        stations \in [RawStationIndices -> StationSamples], height \in {3, 7}}

\* The first ride takes every sample, the other rides are empty slots or
\* one ride with both records at every station.
InitStations ==
    /\ RandomIdle
    /\ StaffIdle
    /\ InfoIdle
    /\ pc = "ImportRides"
    /\ ndebug = FALSE
    /\ s6_rides \in
          {rides \in [RideIndices ->
                         StationRideSamples \cup {RawRideWithoutStations(RIDE_TYPE_NULL, 0)}] :
              \A index \in RideIndices :
                  index # 0 =>
                      \/ rides[index].type = RIDE_TYPE_NULL
                      \/ rides[index] =
                            RawRideOfStations(
                                [i \in RawStationIndices |->
                                    [entrance |-> XY8(10, 20), exit |-> XY8(30, 40)]], 3)}
    /\ gRides = [index \in RideIndices |-> NullRide(index)]
    /\ TilesIdle /\ SpawnsIdle /\ SpritesIdle /\ ResearchIdle /\ LoadedScenario
    /\ ImportingScenario
    /\ FileIdle

NextStations == ImportRides

SpecStations == InitStations /\ [][NextStations]_vars

\* The location that the raw record coords of a station at the given
\* height stands for.
LocationOfRecord(coords, height) ==
    IF coords = RCT_XY8_UNDEFINED THEN ClearedLocation
    ELSE SetLocation(coords.x, coords.y, height, 0)

\* C22: after the import of the rides, for every imported ride and every
\* station of the raw format, the destination exit is cleared when the raw
\* exit record is undefined and otherwise has the x and y of the raw exit
\* record and the station's height; the destination entrance is cleared or
\* taken from the raw entrance record in the same way.
C22_ExitFromExitRecord ==
    RidesImported =>
        \A index \in RideIndices :
            s6_rides[index].type # RIDE_TYPE_NULL =>
                \A i \in RawStationIndices :
                    /\ gRides[index].exits[i] =
                          LocationOfRecord(s6_rides[index].exits[i],
                                           s6_rides[index].station_heights[i])
                    /\ gRides[index].entrances[i] =
                          LocationOfRecord(s6_rides[index].entrances[i],
                                           s6_rides[index].station_heights[i])

(***************************************************************************)
(* The specification of StaffSetOrderAction: Query and Execute are called  *)
(* in any order, with any sprite index and order, on a sprite array whose  *)
(* first two sprites are drawn from PeepSamples.                           *)
(***************************************************************************)
\* A plausible slip: every member of staff may be given orders.
MayBeGivenOrders_AnyStaff(peep) == peep.type = "PEEP_TYPE_STAFF"
\* Line 62-63, negated: the peep is a handyman or a mechanic.
MayBeGivenOrders(peep) ==
    ~(\/ peep.type # "PEEP_TYPE_STAFF"
      \/ (/\ peep.staff_type # "STAFF_TYPE_HANDYMAN"
          /\ peep.staff_type # "STAFF_TYPE_MECHANIC"))

\* std::make_unique<GameActionResult>(error, message)
GameActionResult(errorCode, message) == [Error |-> errorCode, ErrorMessage |-> message]

\* Line 53-70.
QueryResult(spriteIndex) ==
    IF spriteIndex >= MAX_SPRITES
    THEN GameActionResult("GA_ERROR::INVALID_PARAMETERS", "STR_NONE")
    ELSE IF ~MayBeGivenOrders(peepFields[spriteIndex])
         THEN GameActionResult("GA_ERROR::INVALID_PARAMETERS", "STR_NONE")
         ELSE GameActionResult("GA_ERROR::OK", "STR_NONE")

\* Line 53-70: Query of an action built with (spriteIndex, orderId).
Query(spriteIndex, orderId) ==
    /\ pc = "GameAction"
    /\ lastAction' = [fn |-> "Query", spriteIndex |-> spriteIndex, orderId |-> orderId]
    /\ spritesRead' = IF spriteIndex >= MAX_SPRITES THEN {} ELSE {spriteIndex}
    /\ gaResult' = QueryResult(spriteIndex)
    /\ UNCHANGED <<pc, peepFields, invalidatedWindows, staffListRefreshed, outOfBounds>>
    /\ UNCHANGED <<fileVars, randomVars, infoVars, hostVars, buildVars, tileVars, spawnVars, spriteVars, rideVars,
                   researchVars, loadVars>>

\* Line 76: peep->staff_orders = _orderId.
SetStaffOrders(peeps, spriteIndex, orderId) ==
    [peeps EXCEPT ![spriteIndex].staff_orders = orderId]

\* Line 82-86: a result with the position of the peep.
ExecuteResult(peep) ==
    [Error |-> "GA_ERROR::OK", ErrorMessage |-> "STR_NONE",
     Position |-> [x |-> peep.x, y |-> peep.y, z |-> peep.z]]

\* What GET_PEEP may find beyond the end of the sprite array.
ForeignMemory == {PeepPosition(MAX_SPRITES), [x |-> 0, y |-> 0, z |-> 0]}

\* Line 72-87: Execute of an action built with (spriteIndex, orderId).
\* There is no test of the index: beyond the sprite array the write is
\* undefined behaviour, which ends the process or writes foreign memory.
Execute(spriteIndex, orderId) ==
    /\ pc = "GameAction"
    /\ lastAction' = [fn |-> "Execute", spriteIndex |-> spriteIndex, orderId |-> orderId]
    /\ spritesRead' = {spriteIndex}
    /\ IF spriteIndex < MAX_SPRITES
       THEN /\ peepFields' = SetStaffOrders(peepFields, spriteIndex, orderId)
            /\ invalidatedWindows' = invalidatedWindows \cup {spriteIndex}
            /\ staffListRefreshed' = TRUE
            /\ gaResult' = ExecuteResult(peepFields'[spriteIndex])
            /\ UNCHANGED <<pc, outOfBounds>>
       ELSE \/ /\ pc' = "Crashed"
               /\ UNCHANGED <<peepFields, invalidatedWindows, staffListRefreshed, gaResult,
                              outOfBounds>>
            \/ /\ outOfBounds' = TRUE
               /\ invalidatedWindows' = invalidatedWindows \cup {spriteIndex}
               /\ staffListRefreshed' = TRUE
               /\ \E position \in ForeignMemory :
                     gaResult' = [Error |-> "GA_ERROR::OK", ErrorMessage |-> "STR_NONE",
                                  Position |-> position]
               /\ UNCHANGED <<pc, peepFields>>
    /\ UNCHANGED <<fileVars, randomVars, infoVars, hostVars, buildVars, tileVars, spawnVars, spriteVars, rideVars,
                   researchVars, loadVars>>

\* A handyman, a mechanic, a security guard, and a guest whose staff_type
\* byte reads as handyman.
PeepSamples(index) ==
    {[IdleMechanic(index) EXCEPT !.staff_type = "STAFF_TYPE_HANDYMAN"],
     IdleMechanic(index),
     [IdleMechanic(index) EXCEPT !.staff_type = "STAFF_TYPE_SECURITY"],
     [IdleMechanic(index) EXCEPT !.type = "PEEP_TYPE_GUEST",
                                 !.staff_type = "STAFF_TYPE_HANDYMAN"]}

\* The sprite indices of the calls: every sprite and two indices beyond
\* the array.
CallIndices == 0..(MAX_SPRITES + 1)

\* The orders of the calls.
OrderSamples == {3, 12}

InitStaff ==
    /\ RandomIdle
    /\ InfoIdle
    /\ pc = "GameAction"
    /\ ndebug = FALSE
    /\ peepFields \in
          {peeps \in [SpriteIndices -> UNION {PeepSamples(index) : index \in SpriteIndices}] :
              \A index \in SpriteIndices :
                  /\ peeps[index] \in PeepSamples(index)
                  /\ index >= 2 => peeps[index] = IdleMechanic(index)}
    /\ lastAction = NoAction
    /\ spritesRead = {}
    /\ gaResult = NoResult
    /\ invalidatedWindows = {}
    /\ staffListRefreshed = FALSE
    /\ outOfBounds = FALSE
    /\ TilesIdle /\ SpawnsIdle /\ SpritesIdle /\ RidesIdle /\ ResearchIdle
    /\ LoadedScenario
    /\ ImportingScenario
    /\ FileIdle

NextStaff ==
    \E spriteIndex \in CallIndices, orderId \in OrderSamples :
        \/ Query(spriteIndex, orderId)
        \/ Execute(spriteIndex, orderId)

SpecStaff == InitStaff /\ [][NextStaff]_vars

\* The state a game action can change, the record of the last call aside.
QueryFrame == <<pc, peepFields, invalidatedWindows, staffListRefreshed, outOfBounds>>

\* The peep at index is a member of staff of type handyman or mechanic.
IsHandymanOrMechanic(index) ==
    /\ peepFields[index].type = "PEEP_TYPE_STAFF"
    /\ peepFields[index].staff_type \in {"STAFF_TYPE_HANDYMAN", "STAFF_TYPE_MECHANIC"}

\* What Query has to return for the sprite index of the last call.
QueryAnswerIsRight ==
    LET index == lastAction.spriteIndex IN
    /\ index >= MAX_SPRITES =>
          gaResult.Error = "GA_ERROR::INVALID_PARAMETERS" /\ spritesRead = {}
    /\ index < MAX_SPRITES /\ ~IsHandymanOrMechanic(index) =>
          gaResult.Error = "GA_ERROR::INVALID_PARAMETERS"
    /\ index < MAX_SPRITES /\ IsHandymanOrMechanic(index) =>
          gaResult.Error = "GA_ERROR::OK"

\* A step changes the peep fields as an Execute of (index, orderId) on a
\* sprite of the array does: staff_orders of that sprite, nothing else.
OnlyOrdersOf(index, orderId) ==
    /\ peepFields'[index].staff_orders = orderId
    /\ \A other \in SpriteIndices :
          /\ other # index => peepFields'[other] = peepFields[other]
          /\ peepFields'[other] = [peepFields[other] EXCEPT
                                      !.staff_orders = peepFields'[other].staff_orders]

\* C23: in every sequence of Query and Execute calls, Query changes no
\* state and answers INVALID_PARAMETERS for an index beyond the sprite
\* array (reading no sprite) or a sprite that is no handyman or mechanic,
\* success otherwise; staff_orders of a peep changes only in an Execute for
\* its own index, which sets it to orderId and changes no other peep field.
C23_QueryPureExecuteSetsOrders ==
    /\ [](lastAction.fn = "Query" => QueryAnswerIsRight)
    /\ [][lastAction'.fn = "Query" => UNCHANGED QueryFrame]_vars
    /\ [][\A index \in SpriteIndices :
            peepFields'[index].staff_orders # peepFields[index].staff_orders =>
                /\ lastAction'.fn = "Execute"
                /\ lastAction'.spriteIndex = index
                /\ peepFields'[index].staff_orders = lastAction'.orderId]_vars
    /\ [][lastAction'.fn = "Execute" /\ lastAction'.spriteIndex < MAX_SPRITES =>
            OnlyOrdersOf(lastAction'.spriteIndex, lastAction'.orderId)]_vars

\* A guest whose staff_type byte reads as handyman was refused by Query
\* after a handyman and a mechanic had been given different orders.
C23_Witness ==
    /\ lastAction.fn = "Query"
    /\ lastAction.spriteIndex = 1
    /\ peepFields[1].type = "PEEP_TYPE_GUEST"
    /\ peepFields[1].staff_type = "STAFF_TYPE_HANDYMAN"
    /\ gaResult.Error = "GA_ERROR::INVALID_PARAMETERS"
    /\ peepFields[0].staff_type = "STAFF_TYPE_HANDYMAN"
    /\ peepFields[0].staff_orders = 3
    /\ peepFields[2].staff_orders = 12
    /\ invalidatedWindows = {0, 2}

(***************************************************************************)
(* The specification of ror_xor_ror_engine: two engines are seeded alike;  *)
(* engineA is called, engineB is called and discarded from, and either is  *)
(* seeded again at any time between its calls.                             *)
(***************************************************************************)
\* The most words an engine produces.
MaxDraws == 4

\* The largest N that discard is called with.
MaxDiscard == 3

\* A plausible slip: _S1 is rotated from the new _S0.
Generate_FromNewS0(engine) ==
    LET S0 == (engine.S0 + ror(BitXor(engine.S1, mask, WordBits), shift_a)) % Modulus
        S1 == ror(S0, shift_b)
    IN  [engine |-> Seeded(S0, S1), value |-> S1]
\* Line 30-36, operator(): the engine after the call and the value the
\* call returns.
Generate(engine) ==
    LET S0z == engine.S0
        S0 == (engine.S0 + ror(BitXor(engine.S1, mask, WordBits), shift_a)) % Modulus
        S1 == ror(S0z, shift_b)
    IN  [engine |-> Seeded(S0, S1), value |-> S1]

\* Line 43-47: seed(S0) gives both words the value S0.
SeededWith(S0) == Seeded(S0, S0)

\* A call of operator() of engineA.
CallA ==
    /\ pc = "Random"
    /\ callsA < MaxDraws
    /\ engineA' = Generate(engineA).engine
    /\ outputsA' = Append(outputsA, Generate(engineA).value)
    /\ callsA' = callsA + 1
    /\ UNCHANGED <<pc, engineB, seedA, seedB, callsB, outputsB, discardLeft, discardTarget>>
    /\ UNCHANGED <<fileVars, staffVars, infoVars, hostVars, buildVars, tileVars, spawnVars, spriteVars,
                   rideVars, researchVars, loadVars>>

\* A call of operator() of engineB, outside discard.
CallB ==
    /\ pc = "Random"
    /\ discardLeft = 0
    /\ callsB < MaxDraws
    /\ engineB' = Generate(engineB).engine
    /\ outputsB' = Append(outputsB, Generate(engineB).value)
    /\ callsB' = callsB + 1
    /\ UNCHANGED <<pc, engineA, seedA, seedB, callsA, outputsA, discardLeft, discardTarget>>
    /\ UNCHANGED <<fileVars, staffVars, infoVars, hostVars, buildVars, tileVars, spawnVars, spriteVars,
                   rideVars, researchVars, loadVars>>

\* Line 24: discard(N) of engineB is entered.
DiscardBegin(N) ==
    /\ pc = "Random"
    /\ discardLeft = 0
    /\ callsB + N <= MaxDraws
    /\ discardLeft' = N
    /\ discardTarget' = callsB + N
    /\ UNCHANGED <<pc, engineA, engineB, seedA, seedB, callsA, callsB, outputsA, outputsB>>
    /\ UNCHANGED <<fileVars, staffVars, infoVars, hostVars, buildVars, tileVars, spawnVars, spriteVars,
                   rideVars, researchVars, loadVars>>

\* Line 26-27: one turn of the loop, for (; N != 0; --N) (*this)().
DiscardStep ==
    /\ pc = "Random"
    /\ discardLeft # 0
    /\ engineB' = Generate(engineB).engine
    /\ outputsB' = Append(outputsB, Discarded)
    /\ callsB' = callsB + 1
    /\ discardLeft' = discardLeft - 1
    /\ UNCHANGED <<pc, engineA, seedA, seedB, callsA, outputsA, discardTarget>>
    /\ UNCHANGED <<fileVars, staffVars, infoVars, hostVars, buildVars, tileVars, spawnVars, spriteVars,
                   rideVars, researchVars, loadVars>>

\* The words seed(S0) is called with: the ends of the range and 1.
SeedSamples == {0, 1, Modulus - 1}

\* The pairs of words seed(S0, S1) is called with: one whose first call
\* wraps around, its mirror image, and the two smallest words.
SeedWordSamples == {<<Modulus - 1, 90>>, <<90, Modulus - 1>>, <<0, 1>>}

\* Line 43-47: seed(S0) of engineA, at any time; the words it produces are
\* counted from here on.
SeedA(S0) ==
    /\ pc = "Random"
    /\ engineA' = SeededWith(S0)
    /\ seedA' = SeededWith(S0)
    /\ callsA' = 0
    /\ outputsA' = <<>>
    /\ UNCHANGED <<pc, engineB, seedB, callsB, outputsB, discardLeft, discardTarget>>
    /\ UNCHANGED <<fileVars, staffVars, infoVars, hostVars, buildVars, tileVars, spawnVars, spriteVars,
                   rideVars, researchVars, loadVars>>

\* Line 49-53: seed(S0, S1) of engineA.
SeedWordsA(S0, S1) ==
    /\ pc = "Random"
    /\ engineA' = Seeded(S0, S1)
    /\ seedA' = Seeded(S0, S1)
    /\ callsA' = 0
    /\ outputsA' = <<>>
    /\ UNCHANGED <<pc, engineB, seedB, callsB, outputsB, discardLeft, discardTarget>>
    /\ UNCHANGED <<fileVars, staffVars, infoVars, hostVars, buildVars, tileVars, spawnVars, spriteVars,
                   rideVars, researchVars, loadVars>>

\* Line 43-47: seed(S0) of engineB, outside discard, which returns before
\* its caller goes on.
SeedB(S0) ==
    /\ pc = "Random"
    /\ discardLeft = 0
    /\ engineB' = SeededWith(S0)
    /\ seedB' = SeededWith(S0)
    /\ callsB' = 0
    /\ outputsB' = <<>>
    /\ discardTarget' = 0
    /\ UNCHANGED <<pc, engineA, seedA, callsA, outputsA, discardLeft>>
    /\ UNCHANGED <<fileVars, staffVars, infoVars, hostVars, buildVars, tileVars, spawnVars, spriteVars,
                   rideVars, researchVars, loadVars>>

\* Line 49-53: seed(S0, S1) of engineB, outside discard.
SeedWordsB(S0, S1) ==
    /\ pc = "Random"
    /\ discardLeft = 0
    /\ engineB' = Seeded(S0, S1)
    /\ seedB' = Seeded(S0, S1)
    /\ callsB' = 0
    /\ outputsB' = <<>>
    /\ discardTarget' = 0
    /\ UNCHANGED <<pc, engineA, seedA, callsA, outputsA, discardLeft>>
    /\ UNCHANGED <<fileVars, staffVars, infoVars, hostVars, buildVars, tileVars, spawnVars, spriteVars,
                   rideVars, researchVars, loadVars>>

InitRandom ==
    /\ StaffIdle
    /\ InfoIdle
    /\ pc = "Random"
    /\ ndebug = FALSE
    /\ engineA \in {SeededWith(S0) : S0 \in SeedSamples}
    /\ engineB = engineA
    /\ seedA = engineA
    /\ seedB = engineB
    /\ callsA = 0
    /\ callsB = 0
    /\ outputsA = <<>>
    /\ outputsB = <<>>
    /\ discardLeft = 0
    /\ discardTarget = 0
    /\ TilesIdle /\ SpawnsIdle /\ SpritesIdle /\ RidesIdle /\ ResearchIdle
    /\ LoadedScenario
    /\ ImportingScenario
    /\ FileIdle

NextRandom ==
    \/ \E S0 \in SeedSamples : SeedA(S0)
    \/ \E words \in SeedWordSamples : SeedWordsA(words[1], words[2])
    \/ \E S0 \in SeedSamples : SeedB(S0)
    \/ \E words \in SeedWordSamples : SeedWordsB(words[1], words[2])
    \/ CallA
    \/ CallB
    \/ \E N \in 0..MaxDiscard : DiscardBegin(N)
    \/ DiscardStep

\* The loop of discard runs on once it is entered.
SpecRandom == InitRandom /\ [][NextRandom]_vars /\ WF_vars(DiscardStep)

\* The two words after one call, as the engine is defined.
WordsAfterCall(S0, S1) ==
    [S0 |-> (S0 + ror(BitXor(S1, mask, WordBits), shift_a)) % Modulus,
     S1 |-> ror(S0, shift_b)]

\* C24: one call takes (S0, S1) to S0' = (S0 + ror(S1 xor mask, shift_a))
\* mod 2^w and S1' = ror(S0, shift_b) of the old S0 and returns S1';
\* discard(N) ends, having produced exactly N words; an engine that has
\* produced no word since it was seeded holds its seed; two engines that
\* were last seeded with the same words, one of them called and the other
\* called and discarded from, are in the same state whenever they have
\* produced equally many words since, and every value the second returns
\* is the value the first returned for that word.
C24_CallDiscardDeterminism ==
    /\ [][callsA' = callsA + 1 =>
            /\ engineA' = WordsAfterCall(engineA.S0, engineA.S1)
            /\ outputsA' = Append(outputsA, engineA'.S1)]_vars
    /\ [](discardLeft # 0 => callsB + discardLeft = discardTarget)
    /\ [][discardLeft # 0 /\ discardLeft' = 0 => callsB' = discardTarget]_vars
    /\ (discardLeft # 0 ~> discardLeft = 0)
    /\ [](callsA = 0 => engineA = seedA)
    /\ [](callsB = 0 => engineB = seedB)
    /\ [](seedA = seedB /\ callsA = callsB => engineA = engineB)
    /\ [](seedA = seedB =>
            \A word \in 1..callsB :
                word <= callsA /\ outputsB[word] # Discarded =>
                    outputsB[word] = outputsA[word])

\* Both engines were seeded again, with (255, 90), whose first call wraps
\* around; both have produced four words since, of which engineB discarded
\* the first two and the fourth.
C24_Witness ==
    /\ seedA = Seeded(255, 90)
    /\ seedB = seedA
    /\ outputsA = <<255, 41, 73, 222>>
    /\ outputsB = <<Discarded, Discarded, 73, Discarded>>
    /\ engineA = Seeded(98, 222)
    /\ engineB = engineA
    /\ discardLeft = 0
    /\ discardTarget = 4

=============================================================================
